---- MODULE Spec2Model ----
(***************************************************************************)
(* Model of the external-dns Traffic Manager webhook provider: the         *)
(* annotation parser and validator, the naming functions, the state        *)
(* manager (the State Mirror) and the provider's ApplyChanges handlers     *)
(* (createEndpoint, updateEndpoint, deleteEndpoint) run by independent     *)
(* writers against one shared remote Traffic Manager control plane.        *)
(*                                                                         *)
(* Go strings are sequences of one-character strings, so that the naming   *)
(* functions and the numeric parsers work on characters as the code does.  *)
(* The empty Go string is the empty sequence.                              *)
(***************************************************************************)
EXTENDS Integers, Sequences, FiniteSets, TLC

\* ------------------------------------------------------------------------
\* Characters and strings
\* ------------------------------------------------------------------------

LowerSeq == <<"a","b","c","d","e","f","g","h","i","j","k","l","m",
              "n","o","p","q","r","s","t","u","v","w","x","y","z">>

UpperSeq == <<"A","B","C","D","E","F","G","H","I","J","K","L","M",
              "N","O","P","Q","R","S","T","U","V","W","X","Y","Z">>

DigitSeq == <<"0","1","2","3","4","5","6","7","8","9">>

Range(s) == {s[i] : i \in DOMAIN s}

IsLower(c) == c \in Range(LowerSeq)

IsUpper(c) == c \in Range(UpperSeq)

IsDigit(c) == c \in Range(DigitSeq)

IndexOf(s, c) == CHOOSE i \in DOMAIN s : s[i] = c

\* strings.ToLower on the characters the model uses
ToLower(s) ==
    [i \in 1..Len(s) |-> IF IsUpper(s[i]) THEN LowerSeq[IndexOf(UpperSeq, s[i])] ELSE s[i]]

DigitVal(c) == IndexOf(DigitSeq, c) - 1

RECURSIVE DigitsVal(_)
DigitsVal(s) ==
    IF Len(s) = 0 THEN 0
    ELSE 10 * DigitsVal(SubSeq(s, 1, Len(s) - 1)) + DigitVal(s[Len(s)])

\* strconv.ParseInt(s, 10, 64): an optional sign followed by at least one
\* decimal digit; anything else is a syntax error.
ParseInt(s) ==
    LET signed == Len(s) > 0 /\ s[1] \in {"+", "-"}
        body   == IF signed THEN SubSeq(s, 2, Len(s)) ELSE s
    IN  IF Len(body) = 0 \/ \E i \in DOMAIN body : ~IsDigit(body[i])
        THEN [ok |-> FALSE, val |-> 0]
        ELSE [ok |-> TRUE,
              val |-> IF signed /\ s[1] = "-" THEN 0 - DigitsVal(body) ELSE DigitsVal(body)]

\* a flag parser that takes every string, reading the unknown ones as false
ParseBoolLenient(s) ==
    [ok |-> TRUE, val |-> s \in {<<"1">>, <<"t">>, <<"T">>, <<"t","r","u","e">>,
                                 <<"T","R","U","E">>, <<"T","r","u","e">>}]

\* strconv.ParseBool
ParseBool(s) ==
    IF s \in {<<"1">>, <<"t">>, <<"T">>, <<"t","r","u","e">>,
              <<"T","R","U","E">>, <<"T","r","u","e">>}
    THEN [ok |-> TRUE, val |-> TRUE]
    ELSE IF s \in {<<"0">>, <<"f">>, <<"F">>, <<"f","a","l","s","e">>,
                   <<"F","A","L","S","E">>, <<"F","a","l","s","e">>}
    THEN [ok |-> TRUE, val |-> FALSE]
    ELSE [ok |-> FALSE, val |-> FALSE]

\* fmt.Sprintf("%d", i) for the small indices the model uses
Itoa(i) == IF i < 10 THEN <<DigitSeq[i + 1]>> ELSE <<DigitSeq[(i \div 10) + 1], DigitSeq[(i % 10) + 1]>>

\* ------------------------------------------------------------------------
\* Naming functions (provider)
\* ------------------------------------------------------------------------

\* a sanitizer that keeps the dots
sanitizeNameKeepingDots(name) ==
    [i \in 1..Len(name) |->
        IF IsLower(name[i]) \/ IsUpper(name[i]) \/ IsDigit(name[i]) \/ name[i] = "."
        THEN name[i] ELSE "-"]

\* sanitizeName: letters and digits are kept, every other character becomes
\* a hyphen
sanitizeName(name) ==
    [i \in 1..Len(name) |->
        IF IsLower(name[i]) \/ IsUpper(name[i]) \/ IsDigit(name[i]) THEN name[i] ELSE "-"]

generateProfileName(dnsName) == sanitizeName(dnsName) \o <<"-", "t", "m">>

generateEndpointName(dnsName, targets) ==
    IF Len(targets) > 0 THEN sanitizeName(targets[1]) ELSE sanitizeName(dnsName)

\* index is the zero-based loop index of the code
generateEndpointNameFromTarget(target, index) ==
    IF index > 0 THEN sanitizeName(target) \o <<"-">> \o Itoa(index) ELSE sanitizeName(target)

\* dnsendpoint.GenerateName: dots become hyphens, letters, digits and hyphens
\* are kept, every other character is dropped, "-tm-cname" is appended.
RECURSIVE GenerateNameBody(_)
GenerateNameBody(h) ==
    IF Len(h) = 0 THEN <<>>
    ELSE LET c == h[1]
             r == GenerateNameBody(Tail(h))
         IN  IF c = "." THEN <<"-">> \o r
             ELSE IF IsLower(c) \/ IsUpper(c) \/ IsDigit(c) \/ c = "-" THEN <<c>> \o r
             ELSE r

GenerateName(hostname) ==
    GenerateNameBody(hostname) \o <<"-","t","m","-","c","n","a","m","e">>

\* ------------------------------------------------------------------------
\* Annotations: constants, ParseConfig, ValidateConfig
\* ------------------------------------------------------------------------

AnnotationEnabled == "webhook/traffic-manager-enabled"
AnnotationProfileName == "webhook/traffic-manager-profile-name"
AnnotationResourceGroup == "webhook/traffic-manager-resource-group"
AnnotationHostname == "webhook/traffic-manager-hostname"
AnnotationRoutingMethod == "webhook/traffic-manager-routing-method"
AnnotationWeight == "webhook/traffic-manager-weight"
AnnotationPriority == "webhook/traffic-manager-priority"
AnnotationEndpointName == "webhook/traffic-manager-endpoint-name"
AnnotationEndpointLocation == "webhook/traffic-manager-endpoint-location"
AnnotationEndpointStatus == "webhook/traffic-manager-endpoint-status"
AnnotationDNSTTL == "webhook/traffic-manager-dns-ttl"
AnnotationMonitorProtocol == "webhook/traffic-manager-monitor-protocol"
AnnotationMonitorPort == "webhook/traffic-manager-monitor-port"
AnnotationMonitorPath == "webhook/traffic-manager-monitor-path"
AnnotationHealthChecksEnabled == "webhook/traffic-manager-health-checks-enabled"

DefaultRoutingMethod == <<"W","e","i","g","h","t","e","d">>
DefaultWeight == 100
DefaultPriority == 1
DefaultDNSTTL == 30
DefaultMonitorProtocol == <<"H","T","T","P","S">>
DefaultMonitorPort == 443
DefaultMonitorPath == <<"/">>
DefaultEndpointStatus == <<"E","n","a","b","l","e","d">>
DefaultEndpointType == <<"E","x","t","e","r","n","a","l","E","n","d","p","o","i","n","t","s">>

StrTrue == <<"t","r","u","e">>
StrDisabled == <<"D","i","s","a","b","l","e","d">>

\* labels[key] of a Go map: the empty string when the key is absent
Lookup(labels, key) == IF key \in DOMAIN labels THEN labels[key] ELSE <<>>

\* a test that takes an annotation with an empty value for given
PresentEvenIfEmpty(labels, key) == key \in DOMAIN labels

\* `v, ok := labels[key]; ok && v != ""`
Present(labels, key) == key \in DOMAIN labels /\ labels[key] # <<>>

NoConfig == [Enabled |-> FALSE, Nil |-> TRUE]

DefaultsConfig ==
    [Enabled |-> FALSE, ProfileName |-> <<>>, ResourceGroup |-> <<>>, Hostname |-> <<>>,
     RoutingMethod |-> DefaultRoutingMethod, Weight |-> DefaultWeight,
     Priority |-> DefaultPriority, EndpointName |-> <<>>, EndpointLocation |-> <<>>,
     EndpointStatus |-> DefaultEndpointStatus, EndpointType |-> DefaultEndpointType,
     DNSTTL |-> DefaultDNSTTL, MonitorProtocol |-> DefaultMonitorProtocol,
     MonitorPort |-> DefaultMonitorPort, MonitorPath |-> DefaultMonitorPath,
     HealthChecksEnabled |-> FALSE, Nil |-> FALSE]

ParseErr(msg) == [err |-> msg, config |-> NoConfig]

\* a parser that checks the resource group and the weight before it looks at
\* the enabled annotation
ParseConfigEager(labels) ==
    LET enabled == AnnotationEnabled \in DOMAIN labels
                   /\ ToLower(labels[AnnotationEnabled]) = StrTrue
    IN  IF Lookup(labels, AnnotationResourceGroup) = <<>>
        THEN ParseErr("annotation resource-group is required when Traffic Manager is enabled")
        ELSE IF Present(labels, AnnotationWeight) /\ ~ParseInt(labels[AnnotationWeight]).ok
        THEN ParseErr("invalid weight value")
        ELSE [err |-> "",
              config |-> [DefaultsConfig EXCEPT
                            !.Enabled = enabled,
                            !.ResourceGroup = labels[AnnotationResourceGroup],
                            !.EndpointLocation = Lookup(labels, AnnotationEndpointLocation),
                            !.ProfileName = Lookup(labels, AnnotationProfileName),
                            !.EndpointName = Lookup(labels, AnnotationEndpointName),
                            !.Hostname = Lookup(labels, AnnotationHostname)]]

\* ParseConfig returns (config, error): err = "" means no error.
ParseConfig(labels) ==
    LET enabled == AnnotationEnabled \in DOMAIN labels
                   /\ ToLower(labels[AnnotationEnabled]) = StrTrue
        str(key, dflt) == IF Present(labels, key) THEN labels[key] ELSE dflt
        num(key, dflt) == IF Present(labels, key) THEN ParseInt(labels[key]).val ELSE dflt
        bad(key) == Present(labels, key) /\ ~ParseInt(labels[key]).ok
    IN  IF ~enabled THEN [err |-> "", config |-> DefaultsConfig]
        ELSE IF Lookup(labels, AnnotationResourceGroup) = <<>>
        THEN ParseErr("annotation resource-group is required when Traffic Manager is enabled")
        ELSE IF bad(AnnotationWeight) THEN ParseErr("invalid weight value")
        ELSE IF bad(AnnotationPriority) THEN ParseErr("invalid priority value")
        ELSE IF bad(AnnotationDNSTTL) THEN ParseErr("invalid DNS TTL value")
        ELSE IF bad(AnnotationMonitorPort) THEN ParseErr("invalid monitor port value")
        ELSE IF Present(labels, AnnotationHealthChecksEnabled)
                /\ ~ParseBool(labels[AnnotationHealthChecksEnabled]).ok
        THEN ParseErr("invalid health checks enabled value")
        ELSE [err |-> "",
              config |->
                [Enabled |-> TRUE,
                 ProfileName |-> str(AnnotationProfileName, <<>>),
                 ResourceGroup |-> labels[AnnotationResourceGroup],
                 Hostname |-> str(AnnotationHostname, <<>>),
                 RoutingMethod |-> str(AnnotationRoutingMethod, DefaultRoutingMethod),
                 Weight |-> num(AnnotationWeight, DefaultWeight),
                 Priority |-> num(AnnotationPriority, DefaultPriority),
                 EndpointName |-> str(AnnotationEndpointName, <<>>),
                 EndpointLocation |-> str(AnnotationEndpointLocation, <<>>),
                 EndpointStatus |-> str(AnnotationEndpointStatus, DefaultEndpointStatus),
                 EndpointType |-> DefaultEndpointType,
                 DNSTTL |-> num(AnnotationDNSTTL, DefaultDNSTTL),
                 MonitorProtocol |-> str(AnnotationMonitorProtocol, DefaultMonitorProtocol),
                 MonitorPort |-> num(AnnotationMonitorPort, DefaultMonitorPort),
                 MonitorPath |-> str(AnnotationMonitorPath, DefaultMonitorPath),
                 HealthChecksEnabled |->
                    IF Present(labels, AnnotationHealthChecksEnabled)
                    THEN ParseBool(labels[AnnotationHealthChecksEnabled]).val
                    ELSE FALSE,
                 Nil |-> FALSE]]

validRoutingMethods ==
    {<<"W","e","i","g","h","t","e","d">>, <<"P","r","i","o","r","i","t","y">>,
     <<"P","e","r","f","o","r","m","a","n","c","e">>,
     <<"G","e","o","g","r","a","p","h","i","c">>}

\* a protocol list that takes UDP too
validProtocolsWithUDP ==
    {<<"H","T","T","P">>, <<"H","T","T","P","S">>, <<"T","C","P">>, <<"U","D","P">>}

\* the monitor protocols ValidateConfig accepts
validProtocols == {<<"H","T","T","P">>, <<"H","T","T","P","S">>, <<"T","C","P">>}

validStatuses == {DefaultEndpointStatus, StrDisabled}

\* ValidateConfig without the upper bound of the weight range
ValidateConfigNoUpperWeight(config) ==
    IF ~config.Enabled THEN ""
    ELSE IF config.ResourceGroup = <<>> THEN "resource group is required"
    ELSE IF config.Weight < 1 THEN "weight must be between 1 and 1000"
    ELSE IF config.Priority < 1 \/ config.Priority > 1000
    THEN "priority must be between 1 and 1000"
    ELSE IF config.EndpointType = DefaultEndpointType /\ config.EndpointLocation = <<>>
    THEN "endpoint location is required for ExternalEndpoints"
    ELSE ""

\* ValidateConfig returns the error message, "" for nil
ValidateConfig(config) ==
    IF ~config.Enabled THEN ""
    ELSE IF config.ResourceGroup = <<>> THEN "resource group is required"
    ELSE IF config.Weight < 1 \/ config.Weight > 1000
    THEN "weight must be between 1 and 1000"
    ELSE IF config.Priority < 1 \/ config.Priority > 1000
    THEN "priority must be between 1 and 1000"
    ELSE IF config.RoutingMethod \notin validRoutingMethods THEN "invalid routing method"
    ELSE IF config.MonitorProtocol \notin validProtocols THEN "invalid monitor protocol"
    ELSE IF config.EndpointStatus \notin validStatuses THEN "invalid endpoint status"
    ELSE IF config.DNSTTL < 30 THEN "DNS TTL must be at least 30 seconds"
    ELSE IF config.MonitorPort < 1 \/ config.MonitorPort > 65535
    THEN "monitor port must be between 1 and 65535"
    ELSE IF config.EndpointType = DefaultEndpointType /\ config.EndpointLocation = <<>>
    THEN "endpoint location is required for ExternalEndpoints"
    ELSE ""

\* ToProfileConfig: the profile-level part of the configuration plus the
\* managedBy tag; the caller adds the hostname tag.
ManagedByValue == "external-dns-traffic-manager-webhook"

ToProfileConfig(c, hostnameTag) ==
    [ProfileName |-> c.ProfileName, ResourceGroup |-> c.ResourceGroup,
     RoutingMethod |-> c.RoutingMethod, DNSTTL |-> c.DNSTTL,
     MonitorProtocol |-> c.MonitorProtocol, MonitorPort |-> c.MonitorPort,
     MonitorPath |-> c.MonitorPath, HealthChecksEnabled |-> c.HealthChecksEnabled,
     Tags |-> [managedBy |-> ManagedByValue, hostname |-> hostnameTag]]

ToEndpointConfig(c, target) ==
    [EndpointName |-> c.EndpointName, EndpointType |-> c.EndpointType, Target |-> target,
     Weight |-> c.Weight, Priority |-> c.Priority, Status |-> c.EndpointStatus,
     Location |-> c.EndpointLocation]

\* ------------------------------------------------------------------------
\* The remote control plane: profiles keyed by <<resource group, name>>,
\* each owning endpoints keyed by name.  A profile PUT is an upsert of the
\* profile-level settings and leaves the endpoints (separate resources,
\* written by their own PUT) as they are.
\* ------------------------------------------------------------------------

TmSuffix == <<".","t","m","n","e","t">>

FqdnOf(profileName) == profileName \o TmSuffix

getProfileStatus(healthChecksEnabled) == IF healthChecksEnabled THEN "Enabled" ELSE "Disabled"

NoEndpoints == [n \in {} |-> 0]

RemoteHas(r, key) == key \in DOMAIN r

RemoteHasEndpoint(r, key, name) == key \in DOMAIN r /\ name \in DOMAIN r[key].Endpoints

\* profilesClient.CreateOrUpdate as issued by CreateProfile and UpdateProfile
PutProfile(r, key, pcfg) ==
    LET settings(eps) ==
            [RoutingMethod |-> pcfg.RoutingMethod, DNSTTL |-> pcfg.DNSTTL,
             MonitorProtocol |-> pcfg.MonitorProtocol, MonitorPort |-> pcfg.MonitorPort,
             MonitorPath |-> pcfg.MonitorPath,
             ProfileStatus |-> getProfileStatus(pcfg.HealthChecksEnabled),
             Tags |-> pcfg.Tags, FQDN |-> FqdnOf(key[2]), Endpoints |-> eps]
    IN  IF key \in DOMAIN r
        THEN [r EXCEPT ![key] = settings(r[key].Endpoints)]
        ELSE (key :> settings(NoEndpoints)) @@ r

\* profilesClient.Delete
RemoveProfile(r, key) == [k \in (DOMAIN r) \ {key} |-> r[k]]

\* endpointsClient.CreateOrUpdate as issued by CreateEndpoint and UpdateEndpoint
PutEndpoint(r, key, ecfg) ==
    LET ep == [Type |-> ecfg.EndpointType, Target |-> ecfg.Target, Weight |-> ecfg.Weight,
               Priority |-> ecfg.Priority, Status |-> ecfg.Status, Location |-> ecfg.Location]
    IN  [r EXCEPT ![key].Endpoints = (ecfg.EndpointName :> ep) @@ @]

\* endpointsClient.Delete
RemoveEndpoint(r, key, name) ==
    [r EXCEPT ![key].Endpoints = [n \in (DOMAIN @) \ {name} |-> @[n]]]

\* endpointResponseToState followed by convertToStateEndpoint
convertToStateEndpoint(name, ep, t) ==
    [EndpointName |-> name, EndpointType |-> ep.Type, Target |-> ep.Target,
     Weight |-> ep.Weight, Priority |-> ep.Priority, Status |-> ep.Status,
     Location |-> ep.Location, CreatedAt |-> t, UpdatedAt |-> t]

\* The endpoint state CreateEndpoint / UpdateEndpoint return for a config
EndpointStateOf(ecfg, t) ==
    [EndpointName |-> ecfg.EndpointName, EndpointType |-> ecfg.EndpointType,
     Target |-> ecfg.Target, Weight |-> ecfg.Weight, Priority |-> ecfg.Priority,
     Status |-> ecfg.Status, Location |-> ecfg.Location, CreatedAt |-> t, UpdatedAt |-> t]

\* Client.profileToState: the state.ProfileState of a remote profile
profileToState(r, key, t) ==
    LET p == r[key]
    IN  [ProfileName |-> key[2], ResourceGroup |-> key[1],
         Hostname |-> IF "hostname" \in DOMAIN p.Tags THEN p.Tags.hostname ELSE <<>>,
         FQDN |-> p.FQDN,
         RoutingMethod |-> p.RoutingMethod, DNSTTL |-> p.DNSTTL,
         Endpoints |-> [n \in DOMAIN p.Endpoints |-> convertToStateEndpoint(n, p.Endpoints[n], t)],
         Tags |-> p.Tags, CreatedAt |-> t, UpdatedAt |-> t, CachedAt |-> t]

\* ------------------------------------------------------------------------
\* The State Mirror (state.Manager): hostname -> ProfileState
\* ------------------------------------------------------------------------

NoProfiles == [h \in {} |-> 0]

SetProfile(m, hostname, profile, t) ==
    (hostname :> [profile EXCEPT !.CachedAt = t]) @@ m

\* a mirror whose DeleteProfile forgets nothing
DeleteProfileKeep(m, hostname) == m

DeleteProfile(m, hostname) == [h \in (DOMAIN m) \ {hostname} |-> m[h]]

SetEndpoint(m, hostname, endpointName, endpoint, t) ==
    IF hostname \notin DOMAIN m THEN m
    ELSE [m EXCEPT ![hostname] =
            [@ EXCEPT !.Endpoints = (endpointName :> endpoint) @@ @,
                      !.UpdatedAt = t, !.CachedAt = t]]

DeleteEndpoint(m, hostname, endpointName, t) ==
    IF hostname \notin DOMAIN m THEN m
    ELSE [m EXCEPT ![hostname] =
            [@ EXCEPT !.Endpoints = [n \in (DOMAIN @) \ {endpointName} |-> @[n]],
                      !.UpdatedAt = t, !.CachedAt = t]]

\* ------------------------------------------------------------------------
\* Handler-local computations of the provider
\* ------------------------------------------------------------------------

\* createEndpoint: the labels overridden by the provider-specific properties
RECURSIVE annotationMap(_, _)
annotationMap(labels, providerSpecific) ==
    IF Len(providerSpecific) = 0 THEN labels
    ELSE annotationMap((providerSpecific[1].Name :> providerSpecific[1].Value) @@ labels,
                       Tail(providerSpecific))

VanityOf(config, dnsName) == IF config.Hostname = <<>> THEN dnsName ELSE config.Hostname

\* createEndpoint: the profile name is generated from the vanity hostname
createProfileNameSource(config, e) == VanityOf(config, e.DNSName)

\* updateEndpoint and deleteEndpoint: generated from the endpoint's DNS name
updateProfileNameSource(config, e) == e.DNSName

deleteProfileNameSource(config, e) == e.DNSName

WithNames(config, e, profileSource) ==
    [config EXCEPT
        !.ProfileName = IF @ = <<>> THEN generateProfileName(profileSource) ELSE @,
        !.EndpointName = IF @ = <<>> THEN generateEndpointName(e.DNSName, e.Targets) ELSE @]

\* the configuration createEndpoint works with once parsing and validation passed
createConfig(e) ==
    LET c == ParseConfig(annotationMap(e.Labels, e.ProviderSpecific)).config
    IN  WithNames(c, e, createProfileNameSource(c, e))

updateConfig(e) ==
    LET c == ParseConfig(e.Labels).config
    IN  WithNames(c, e, updateProfileNameSource(c, e))

deleteConfig(e) ==
    LET c == ParseConfig(e.Labels).config
    IN  WithNames(c, e, deleteProfileNameSource(c, e))

ProfileKey(config) == <<config.ResourceGroup, config.ProfileName>>

\* createEndpoint: "For A records, use the DNS name as target"
createTargets(e) ==
    IF e.RecordType # "A" /\ Len(e.Targets) > 0 THEN e.Targets ELSE <<e.DNSName>>

\* every target under the endpoint name as configured or generated, no suffix
createEndpointNameUnsuffixed(e, config, i) ==
    IF config.EndpointName = <<>>
    THEN generateEndpointNameFromTarget(createTargets(e)[i + 1], i)
    ELSE config.EndpointName

\* createEndpoint: the endpoint name of the i-th target (i is zero-based)
createEndpointNameAt(e, config, i) ==
    IF Len(e.Targets) > 1 /\ config.EndpointName # <<>>
    THEN config.EndpointName \o <<"-">> \o Itoa(i)
    ELSE IF config.EndpointName = <<>>
    THEN generateEndpointNameFromTarget(createTargets(e)[i + 1], i)
    ELSE config.EndpointName

createEndpointConfigAt(e, config, i) ==
    [ToEndpointConfig(config, createTargets(e)[i + 1]) EXCEPT
        !.EndpointName = createEndpointNameAt(e, config, i)]

\* a publish condition that does not compare the vanity hostname with the DNS name
CnamePublishWantedAlways(vanityHostname, dnsName, fqdn) ==
    vanityHostname # <<>> /\ fqdn # <<>>

\* createEndpoint / deleteEndpoint: is the DNSEndpoint CRD of the vanity URL touched
CnamePublishWanted(vanityHostname, dnsName, fqdn) ==
    vanityHostname # <<>> /\ vanityHostname # dnsName /\ fqdn # <<>>

CnameDeleteWanted(vanityHostname, dnsName) ==
    vanityHostname # <<>> /\ vanityHostname # dnsName

\* a profile comparison that also looks at the weight
ProfileChangedOrWeight(oldConfig, newConfig) ==
    \/ oldConfig.Nil
    \/ oldConfig.RoutingMethod # newConfig.RoutingMethod
    \/ oldConfig.DNSTTL # newConfig.DNSTTL
    \/ oldConfig.MonitorProtocol # newConfig.MonitorProtocol
    \/ oldConfig.MonitorPort # newConfig.MonitorPort
    \/ oldConfig.MonitorPath # newConfig.MonitorPath
    \/ oldConfig.HealthChecksEnabled # newConfig.HealthChecksEnabled
    \/ oldConfig.Weight # newConfig.Weight

\* updateEndpoint: "Check if profile configuration changed"
ProfileChanged(oldConfig, newConfig) ==
    \/ oldConfig.Nil
    \/ oldConfig.RoutingMethod # newConfig.RoutingMethod
    \/ oldConfig.DNSTTL # newConfig.DNSTTL
    \/ oldConfig.MonitorProtocol # newConfig.MonitorProtocol
    \/ oldConfig.MonitorPort # newConfig.MonitorPort
    \/ oldConfig.MonitorPath # newConfig.MonitorPath
    \/ oldConfig.HealthChecksEnabled # newConfig.HealthChecksEnabled

\* updateEndpoint: "Check if we should update weight or status"
EndpointChanged(oldConfig, newConfig) ==
    /\ ~oldConfig.Nil
    /\ (oldConfig.Weight # newConfig.Weight
        \/ oldConfig.EndpointStatus # newConfig.EndpointStatus)

\* ------------------------------------------------------------------------
\* State
\* ------------------------------------------------------------------------

Writers == {"w1", "w2"}

VARIABLES
    remote,     \* the remote control plane: <<resourceGroup, profileName>> -> profile
    mirror,     \* per writer: the State Mirror, hostname -> ProfileState
    cnames,     \* per writer: the DNSEndpoint CRDs of its cluster, name -> CNAME
    changes,    \* per writer: the batch ApplyChanges was called with
    pc,         \* per writer: the position of ApplyChanges in its batch
    result,     \* per writer: what ApplyChanges returned, once it returned
    calls,      \* per writer: the remote calls issued so far, with their outcome
    returned,   \* per writer: the handler invocations that returned so far
    faults,     \* number of injected remote failures so far
    now,        \* the clock read by time.Now()
    heap,       \* the Go heap of the state manager's callers: object id -> object
    profiles,   \* Manager.profiles: hostname -> id of the stored ProfileState
    mu,         \* Manager.mu: the goroutine holding the write lock, those holding the read lock
    inCall,     \* per goroutine: the Manager method it is inside of, with its arguments
    held,       \* per goroutine: the ids of the objects it holds a pointer to
    ret,        \* per goroutine: what its last finished call returned
    ncalls,     \* number of Manager calls and caller-side mutations so far
    input,      \* the configuration or the arguments of the call under study
    output      \* what that call has computed so far, and what it returned

\* the variables of the provider and of the state manager
providerVars == <<remote, mirror, cnames, changes, pc, result, calls, returned, faults>>

managerVars == <<heap, profiles, mu, inCall, held, ret, ncalls>>
callVars == <<input, output>>

vars == <<remote, mirror, cnames, changes, pc, result, calls, returned, faults, now,
          heap, profiles, mu, inCall, held, ret, ncalls, input, output>>

MaxFaults == 2

At(op, idx, step, t) == [op |-> op, idx |-> idx, step |-> step, t |-> t]

Done == At("done", 0, "", 0)

Panicked == At("panic", 0, "", 0)

\* an ApplyChanges that processes the deletes before the updates
FirstFromDeletesBeforeUpdates(ch, op, idx) ==
    LET fromUpdate(i) == IF i <= Len(ch.UpdateOld)
                         THEN IF i <= Len(ch.UpdateNew) THEN At("update", i, "begin", 0)
                              ELSE Panicked
                         ELSE Done
        fromDelete(i) == IF i <= Len(ch.Delete) THEN At("delete", i, "begin", 0)
                         ELSE fromUpdate(1)
    IN  IF op = "create"
        THEN IF idx <= Len(ch.Create) THEN At("create", idx, "begin", 0) ELSE fromDelete(1)
        ELSE IF op = "update" THEN fromUpdate(idx)
        ELSE fromDelete(idx)

\* ApplyChanges: creates, then updates (indexing UpdateNew by the index of
\* UpdateOld), then deletes.  FirstFrom gives the first item at or after
\* position idx of list op.
FirstFrom(ch, op, idx) ==
    LET fromDelete(i) == IF i <= Len(ch.Delete) THEN At("delete", i, "begin", 0) ELSE Done
        fromUpdate(i) == IF i <= Len(ch.UpdateOld)
                         THEN IF i <= Len(ch.UpdateNew) THEN At("update", i, "begin", 0)
                              ELSE Panicked
                         ELSE fromDelete(1)
    IN  IF op = "create"
        THEN IF idx <= Len(ch.Create) THEN At("create", idx, "begin", 0) ELSE fromUpdate(1)
        ELSE IF op = "update" THEN fromUpdate(idx)
        ELSE fromDelete(idx)

Running == [status |-> "running", wrap |-> "", cause |-> ""]

Ok == [status |-> "ok", wrap |-> "", cause |-> ""]

Failed(wrap, cause) == [status |-> "error", wrap |-> wrap, cause |-> cause]

ResultAt(p) == IF p = Done THEN Ok
               ELSE IF p = Panicked THEN [status |-> "panic", wrap |-> "", cause |-> ""]
               ELSE Running

Returned(w, failed) == [phase |-> pc[w].op, idx |-> pc[w].idx, failed |-> failed]

\* the handler of the current item returned nil: go on with the next item
ReturnNil(w) ==
    LET p == FirstFrom(changes[w], pc[w].op, pc[w].idx + 1)
    IN  /\ pc' = [pc EXCEPT ![w] = p]
        /\ result' = [result EXCEPT ![w] = ResultAt(p)]
        /\ returned' = [returned EXCEPT ![w] = Append(@, Returned(w, FALSE))]

\* an ApplyChanges that logs the error of an item and goes on with the next
ReturnErrAndGoOn(w, wrap, cause) ==
    LET p == FirstFrom(changes[w], pc[w].op, pc[w].idx + 1)
    IN  /\ pc' = [pc EXCEPT ![w] = p]
        /\ result' = [result EXCEPT ![w] = IF p = Done THEN Failed(wrap, cause) ELSE Running]
        /\ returned' = [returned EXCEPT ![w] = Append(@, Returned(w, TRUE))]

\* the handler of the current item returned an error: ApplyChanges returns it
ReturnErr(w, wrap, cause) ==
    /\ pc' = [pc EXCEPT ![w] = Done]
    /\ result' = [result EXCEPT ![w] = Failed(wrap, cause)]
    /\ returned' = [returned EXCEPT ![w] = Append(@, Returned(w, TRUE))]

Goto(w, step, t) ==
    /\ pc' = [pc EXCEPT ![w] = [@ EXCEPT !.step = step, !.t = t]]
    /\ UNCHANGED <<result, returned>>

Item(w) ==
    IF pc[w].op = "create" THEN changes[w].Create[pc[w].idx]
    ELSE IF pc[w].op = "update" THEN changes[w].UpdateNew[pc[w].idx]
    ELSE changes[w].Delete[pc[w].idx]

OldItem(w) == changes[w].UpdateOld[pc[w].idx]

AtStep(w, op, step) == pc[w].op = op /\ pc[w].step = step

\* --- remote call outcomes ------------------------------------------------
\* "ok", or a failure: "conflict" (already exists), "notfound", "transient"
\* (auth, rate limit, network).  Failures the remote state does not force
\* are injected, at most MaxFaults of them in a run.

Injected(outs) == IF faults < MaxFaults THEN outs ELSE {}

PutProfileOutcomes(key) ==
    {"ok"} \cup Injected(IF RemoteHas(remote, key) THEN {"conflict", "transient"}
                         ELSE {"transient"})

GetProfileOutcomes(key) ==
    IF RemoteHas(remote, key) THEN {"ok"} \cup Injected({"transient"}) ELSE {"notfound"}

PutEndpointOutcomes(key) ==
    IF RemoteHas(remote, key) THEN {"ok"} \cup Injected({"transient"}) ELSE {"notfound"}

\* a DELETE of a missing resource answers 204 (success) or 404
DeleteEndpointOutcomes(key, name) ==
    IF RemoteHasEndpoint(remote, key, name) THEN {"ok"} \cup Injected({"transient"})
    ELSE {"ok", "notfound"}

DeleteProfileOutcomes(key) ==
    IF RemoteHas(remote, key) THEN {"ok"} \cup Injected({"transient"})
    ELSE {"ok", "notfound"}

CnamePublishOutcomes == {"ok"} \cup Injected({"transient"})

CnameDeleteOutcomes(w, name) ==
    IF name \in DOMAIN cnames[w] THEN {"ok"} \cup Injected({"transient"}) ELSE {"notfound"}

IsInjected(out) == out \in {"conflict", "transient"}

Call(w, op, key, endpointName, out) ==
    [phase |-> pc[w].op, idx |-> pc[w].idx, op |-> op, key |-> key,
     endpoint |-> endpointName, out |-> out]

Issue(w, op, key, endpointName, out) ==
    /\ calls' = [calls EXCEPT ![w] = Append(@, Call(w, op, key, endpointName, out))]
    /\ faults' = IF IsInjected(out) THEN faults + 1 ELSE faults

\* ------------------------------------------------------------------------
\* createEndpoint
\* ------------------------------------------------------------------------

\* up to the first remote call: TXT filter, ParseConfig, enabled check,
\* ValidateConfig
CreateBegin(w) ==
    /\ AtStep(w, "create", "begin")
    /\ LET e == Item(w)
           p == ParseConfig(annotationMap(e.Labels, e.ProviderSpecific))
       IN  IF e.RecordType = "TXT" THEN ReturnNil(w)
           ELSE IF p.err # "" THEN ReturnErr(w, "failed to parse annotations", p.err)
           ELSE IF ~p.config.Enabled THEN ReturnNil(w)
           ELSE IF ValidateConfig(p.config) # ""
           THEN ReturnErr(w, "invalid Traffic Manager configuration", ValidateConfig(p.config))
           ELSE Goto(w, "profile", 0)
    /\ UNCHANGED <<remote, mirror, cnames, changes, calls, faults, now>>
    /\ UNCHANGED managerVars
    /\ UNCHANGED callVars

\* CreateProfile whose failure is returned instead of falling back to GetProfile
CreateProfileCallNoFallback(w) ==
    /\ AtStep(w, "create", "profile")
    /\ LET e == Item(w)
           c == createConfig(e)
           key == ProfileKey(c)
       IN  \E out \in PutProfileOutcomes(key) :
              /\ Issue(w, "CreateProfile", key, <<>>, out)
              /\ remote' = IF out = "ok"
                           THEN PutProfile(remote, key, ToProfileConfig(c, VanityOf(c, e.DNSName)))
                           ELSE remote
              /\ IF out = "ok" THEN Goto(w, "endpoint", 0)
                 ELSE ReturnErr(w, "failed to create profile", out)
    /\ UNCHANGED <<mirror, cnames, changes, now>>
    /\ UNCHANGED managerVars
    /\ UNCHANGED callVars

\* tmClient.CreateProfile; any failure falls back to GetProfile
CreateProfileCall(w) ==
    /\ AtStep(w, "create", "profile")
    /\ LET e == Item(w)
           c == createConfig(e)
           key == ProfileKey(c)
       IN  \E out \in PutProfileOutcomes(key) :
              /\ Issue(w, "CreateProfile", key, <<>>, out)
              /\ remote' = IF out = "ok"
                           THEN PutProfile(remote, key, ToProfileConfig(c, VanityOf(c, e.DNSName)))
                           ELSE remote
              /\ IF out = "ok" THEN Goto(w, "endpoint", 0) ELSE Goto(w, "getprofile", 0)
    /\ UNCHANGED <<mirror, cnames, changes, now>>
    /\ UNCHANGED managerVars
    /\ UNCHANGED callVars

\* a fallback read whose own failure is ignored as well
CreateGetProfileCallIgnoringFailure(w) ==
    /\ AtStep(w, "create", "getprofile")
    /\ LET key == ProfileKey(createConfig(Item(w)))
       IN  \E out \in GetProfileOutcomes(key) :
              /\ Issue(w, "GetProfile", key, <<>>, out)
              /\ Goto(w, "endpoint", 0)
    /\ UNCHANGED <<remote, mirror, cnames, changes, now>>
    /\ UNCHANGED managerVars
    /\ UNCHANGED callVars

\* tmClient.GetProfile after a failed CreateProfile
CreateGetProfileCall(w) ==
    /\ AtStep(w, "create", "getprofile")
    /\ LET key == ProfileKey(createConfig(Item(w)))
       IN  \E out \in GetProfileOutcomes(key) :
              /\ Issue(w, "GetProfile", key, <<>>, out)
              /\ IF out = "ok" THEN Goto(w, "endpoint", 0)
                 ELSE ReturnErr(w, "failed to create/get profile", out)
    /\ UNCHANGED <<remote, mirror, cnames, changes, now>>
    /\ UNCHANGED managerVars
    /\ UNCHANGED callVars

\* an endpoint upsert whose failure is answered by deleting the profile again
CreateEndpointCallRollingBack(w) ==
    /\ AtStep(w, "create", "endpoint")
    /\ LET e == Item(w)
           c == createConfig(e)
           key == ProfileKey(c)
           i == pc[w].t
           ecfg == createEndpointConfigAt(e, c, i)
       IN  \E out \in PutEndpointOutcomes(key) :
              /\ Issue(w, "CreateEndpoint", key, ecfg.EndpointName, out)
              /\ IF out = "ok"
                 THEN /\ remote' = PutEndpoint(remote, key, ecfg)
                      /\ mirror' = [mirror EXCEPT ![w] =
                            SetEndpoint(@, VanityOf(c, e.DNSName), ecfg.EndpointName,
                                        EndpointStateOf(ecfg, now), now)]
                      /\ IF i + 1 < Len(createTargets(e)) THEN Goto(w, "endpoint", i + 1)
                         ELSE Goto(w, "refetch", 0)
                 ELSE /\ remote' = RemoveProfile(remote, key)
                      /\ UNCHANGED mirror
                      /\ ReturnErr(w, "failed to create endpoint", out)
    /\ UNCHANGED <<cnames, changes, now>>
    /\ UNCHANGED managerVars
    /\ UNCHANGED callVars

\* one iteration of the loop over the targets: tmClient.CreateEndpoint, then
\* stateManager.SetEndpoint under the vanity hostname
CreateEndpointCall(w) ==
    /\ AtStep(w, "create", "endpoint")
    /\ LET e == Item(w)
           c == createConfig(e)
           key == ProfileKey(c)
           i == pc[w].t
           ecfg == createEndpointConfigAt(e, c, i)
       IN  \E out \in PutEndpointOutcomes(key) :
              /\ Issue(w, "CreateEndpoint", key, ecfg.EndpointName, out)
              /\ IF out = "ok"
                 THEN /\ remote' = PutEndpoint(remote, key, ecfg)
                      /\ mirror' = [mirror EXCEPT ![w] =
                            SetEndpoint(@, VanityOf(c, e.DNSName), ecfg.EndpointName,
                                        EndpointStateOf(ecfg, now), now)]
                      /\ IF i + 1 < Len(createTargets(e)) THEN Goto(w, "endpoint", i + 1)
                         ELSE Goto(w, "refetch", 0)
                 ELSE /\ UNCHANGED <<remote, mirror>>
                      /\ ReturnErr(w, "failed to create endpoint", out)
    /\ UNCHANGED <<cnames, changes, now>>
    /\ UNCHANGED managerVars
    /\ UNCHANGED callVars

\* tmClient.GetProfileState, then stateManager.SetProfile; a failure of the
\* re-fetch is ignored
CreateRefetchCall(w) ==
    /\ AtStep(w, "create", "refetch")
    /\ LET e == Item(w)
           c == createConfig(e)
           key == ProfileKey(c)
           vanityHostname == VanityOf(c, e.DNSName)
       IN  \E out \in GetProfileOutcomes(key) :
              /\ Issue(w, "GetProfileState", key, <<>>, out)
              /\ IF out = "ok"
                 THEN LET profileState == [profileToState(remote, key, now)
                                              EXCEPT !.Hostname = vanityHostname]
                      IN  /\ mirror' = [mirror EXCEPT ![w] =
                                SetProfile(@, vanityHostname, profileState, now)]
                          /\ IF CnamePublishWanted(vanityHostname, e.DNSName, profileState.FQDN)
                             THEN Goto(w, "cname", 0)
                             ELSE ReturnNil(w)
                 ELSE /\ UNCHANGED mirror
                      /\ ReturnNil(w)
    /\ UNCHANGED <<remote, cnames, changes, now>>
    /\ UNCHANGED managerVars
    /\ UNCHANGED callVars

\* dnsEndpointManager.CreateOrUpdateCNAME; its failure is logged only
CreateCnameCall(w) ==
    /\ AtStep(w, "create", "cname")
    /\ LET e == Item(w)
           c == createConfig(e)
           vanityHostname == VanityOf(c, e.DNSName)
           name == GenerateName(vanityHostname)
       IN  \E out \in CnamePublishOutcomes :
              /\ Issue(w, "CreateOrUpdateCNAME", ProfileKey(c), name, out)
              /\ cnames' = IF out = "ok"
                           THEN [cnames EXCEPT ![w] =
                                   (name :> [hostname |-> vanityHostname,
                                             target |-> FqdnOf(c.ProfileName),
                                             ttl |-> 300]) @@ @]
                           ELSE cnames
              /\ ReturnNil(w)
    /\ UNCHANGED <<remote, mirror, changes, now>>
    /\ UNCHANGED managerVars
    /\ UNCHANGED callVars

\* ------------------------------------------------------------------------
\* updateEndpoint
\* ------------------------------------------------------------------------

oldConfigOf(oldEndpoint) == ParseConfig(oldEndpoint.Labels).config

\* where updateEndpoint goes once the profile part is over: the loop over
\* newEndpoint.Targets issues a call only when weight or status changed
AfterProfileUpdate(w) ==
    IF Len(Item(w).Targets) > 0 /\ EndpointChanged(oldConfigOf(OldItem(w)), updateConfig(Item(w)))
    THEN Goto(w, "endpoint", 0)
    ELSE Goto(w, "refetch", 0)

\* an updateEndpoint that updates the profile whether or not it changed
UpdateBeginAlwaysProfile(w) ==
    /\ AtStep(w, "update", "begin")
    /\ LET e == Item(w)
           p == ParseConfig(e.Labels)
       IN  IF p.err # "" THEN ReturnErr(w, "failed to parse new annotations", p.err)
           ELSE IF ~p.config.Enabled THEN ReturnNil(w)
           ELSE IF ValidateConfig(p.config) # ""
           THEN ReturnErr(w, "invalid Traffic Manager configuration", ValidateConfig(p.config))
           ELSE Goto(w, "profileget", 0)
    /\ UNCHANGED <<remote, mirror, cnames, changes, calls, faults, now>>
    /\ UNCHANGED managerVars
    /\ UNCHANGED callVars

\* up to the first remote call: ParseConfig of the new labels, enabled check,
\* ValidateConfig, ParseConfig of the old labels, comparison of the profile
\* settings
UpdateBegin(w) ==
    /\ AtStep(w, "update", "begin")
    /\ LET e == Item(w)
           p == ParseConfig(e.Labels)
       IN  IF p.err # "" THEN ReturnErr(w, "failed to parse new annotations", p.err)
           ELSE IF ~p.config.Enabled THEN ReturnNil(w)
           ELSE IF ValidateConfig(p.config) # ""
           THEN ReturnErr(w, "invalid Traffic Manager configuration", ValidateConfig(p.config))
           ELSE IF ProfileChanged(oldConfigOf(OldItem(w)), updateConfig(e))
           THEN Goto(w, "profileget", 0)
           ELSE AfterProfileUpdate(w)
    /\ UNCHANGED <<remote, mirror, cnames, changes, calls, faults, now>>
    /\ UNCHANGED managerVars
    /\ UNCHANGED callVars

\* tmClient.UpdateProfile, first half: GetProfile of the existing profile
UpdateProfileGetCall(w) ==
    /\ AtStep(w, "update", "profileget")
    /\ LET key == ProfileKey(updateConfig(Item(w)))
       IN  \E out \in GetProfileOutcomes(key) :
              /\ Issue(w, "GetProfile", key, <<>>, out)
              /\ IF out = "ok" THEN Goto(w, "profileput", 0)
                 ELSE ReturnErr(w, "failed to update profile", out)
    /\ UNCHANGED <<remote, mirror, cnames, changes, now>>
    /\ UNCHANGED managerVars
    /\ UNCHANGED callVars

\* tmClient.UpdateProfile, second half: CreateOrUpdate with the hostname tag
\* set to the DNS name of the new endpoint
UpdateProfilePutCall(w) ==
    /\ AtStep(w, "update", "profileput")
    /\ LET e == Item(w)
           c == updateConfig(e)
           key == ProfileKey(c)
       IN  \E out \in PutProfileOutcomes(key) :
              /\ Issue(w, "UpdateProfile", key, <<>>, out)
              /\ IF out = "ok"
                 THEN /\ remote' = PutProfile(remote, key, ToProfileConfig(c, e.DNSName))
                      /\ AfterProfileUpdate(w)
                 ELSE /\ UNCHANGED remote
                      /\ ReturnErr(w, "failed to update profile", out)
    /\ UNCHANGED <<mirror, cnames, changes, now>>
    /\ UNCHANGED managerVars
    /\ UNCHANGED callVars

\* one iteration of the loop over newEndpoint.Targets: tmClient.UpdateEndpoint,
\* then stateManager.SetEndpoint under the DNS name
UpdateEndpointCall(w) ==
    /\ AtStep(w, "update", "endpoint")
    /\ LET e == Item(w)
           c == updateConfig(e)
           key == ProfileKey(c)
           i == pc[w].t
           ecfg == ToEndpointConfig(c, e.Targets[i + 1])
       IN  \E out \in PutEndpointOutcomes(key) :
              /\ Issue(w, "UpdateEndpoint", key, ecfg.EndpointName, out)
              /\ IF out = "ok"
                 THEN /\ remote' = PutEndpoint(remote, key, ecfg)
                      /\ mirror' = [mirror EXCEPT ![w] =
                            SetEndpoint(@, e.DNSName, ecfg.EndpointName,
                                        EndpointStateOf(ecfg, now), now)]
                      /\ IF i + 1 < Len(e.Targets) THEN Goto(w, "endpoint", i + 1)
                         ELSE Goto(w, "refetch", 0)
                 ELSE /\ UNCHANGED <<remote, mirror>>
                      /\ ReturnErr(w, "failed to update endpoint", out)
    /\ UNCHANGED <<cnames, changes, now>>
    /\ UNCHANGED managerVars
    /\ UNCHANGED callVars

\* tmClient.GetProfileState, then stateManager.SetProfile under the DNS name
UpdateRefetchCall(w) ==
    /\ AtStep(w, "update", "refetch")
    /\ LET e == Item(w)
           key == ProfileKey(updateConfig(e))
       IN  \E out \in GetProfileOutcomes(key) :
              /\ Issue(w, "GetProfileState", key, <<>>, out)
              /\ mirror' = IF out = "ok"
                           THEN [mirror EXCEPT ![w] =
                                   SetProfile(@, e.DNSName,
                                       [profileToState(remote, key, now)
                                           EXCEPT !.Hostname = e.DNSName], now)]
                           ELSE mirror
              /\ ReturnNil(w)
    /\ UNCHANGED <<remote, cnames, changes, now>>
    /\ UNCHANGED managerVars
    /\ UNCHANGED callVars

\* ------------------------------------------------------------------------
\* deleteEndpoint
\* ------------------------------------------------------------------------

DeleteBegin(w) ==
    /\ AtStep(w, "delete", "begin")
    /\ LET e == Item(w)
           p == ParseConfig(e.Labels)
       IN  IF p.err # "" THEN ReturnErr(w, "failed to parse annotations", p.err)
           ELSE IF ~p.config.Enabled THEN ReturnNil(w)
           ELSE IF Len(e.Targets) > 0 THEN Goto(w, "endpoint", 0)
           ELSE Goto(w, "refetch", 0)
    /\ UNCHANGED <<remote, mirror, cnames, changes, calls, faults, now>>
    /\ UNCHANGED managerVars
    /\ UNCHANGED callVars

\* an endpoint deletion that forgets the endpoint in the mirror whatever the
\* remote answered
DeleteEndpointCallAlwaysForget(w) ==
    /\ AtStep(w, "delete", "endpoint")
    /\ LET e == Item(w)
           c == deleteConfig(e)
           key == ProfileKey(c)
           i == pc[w].t
       IN  \E out \in DeleteEndpointOutcomes(key, c.EndpointName) :
              /\ Issue(w, "DeleteEndpoint", key, c.EndpointName, out)
              /\ remote' = IF out = "ok" /\ RemoteHasEndpoint(remote, key, c.EndpointName)
                           THEN RemoveEndpoint(remote, key, c.EndpointName)
                           ELSE remote
              /\ mirror' = [mirror EXCEPT ![w] =
                    DeleteEndpoint(@, e.DNSName, c.EndpointName, now)]
              /\ IF i + 1 < Len(e.Targets) THEN Goto(w, "endpoint", i + 1)
                 ELSE Goto(w, "refetch", 0)
    /\ UNCHANGED <<cnames, changes, now>>
    /\ UNCHANGED managerVars
    /\ UNCHANGED callVars

\* one iteration of the loop over endpoint.Targets: tmClient.DeleteEndpoint of
\* config.EndpointName; a failure is logged, a success removes the endpoint
\* from the mirror entry of the DNS name
DeleteEndpointCall(w) ==
    /\ AtStep(w, "delete", "endpoint")
    /\ LET e == Item(w)
           c == deleteConfig(e)
           key == ProfileKey(c)
           i == pc[w].t
       IN  \E out \in DeleteEndpointOutcomes(key, c.EndpointName) :
              /\ Issue(w, "DeleteEndpoint", key, c.EndpointName, out)
              /\ IF out = "ok"
                 THEN /\ remote' = IF RemoteHasEndpoint(remote, key, c.EndpointName)
                                   THEN RemoveEndpoint(remote, key, c.EndpointName)
                                   ELSE remote
                      /\ mirror' = [mirror EXCEPT ![w] =
                            DeleteEndpoint(@, e.DNSName, c.EndpointName, now)]
                 ELSE UNCHANGED <<remote, mirror>>
              /\ IF i + 1 < Len(e.Targets) THEN Goto(w, "endpoint", i + 1)
                 ELSE Goto(w, "refetch", 0)
    /\ UNCHANGED <<cnames, changes, now>>
    /\ UNCHANGED managerVars
    /\ UNCHANGED callVars

\* a re-fetch that is answered from the State Mirror when it has an entry for
\* the vanity hostname, without a remote call
DeleteRefetchCallCached(w) ==
    /\ AtStep(w, "delete", "refetch")
    /\ LET e == Item(w)
           c == deleteConfig(e)
           key == ProfileKey(c)
           vanityHostname == VanityOf(c, e.DNSName)
       IN  IF vanityHostname \in DOMAIN mirror[w]
           THEN /\ UNCHANGED <<calls, faults, mirror>>
                /\ IF DOMAIN mirror[w][vanityHostname].Endpoints = {}
                   THEN Goto(w, "profile", 0)
                   ELSE ReturnNil(w)
           ELSE \E out \in GetProfileOutcomes(key) :
                  /\ Issue(w, "GetProfileState", key, <<>>, out)
                  /\ IF out = "ok" /\ DOMAIN remote[key].Endpoints = {}
                     THEN /\ UNCHANGED mirror
                          /\ Goto(w, "profile", 0)
                     ELSE IF out = "ok"
                     THEN /\ mirror' = [mirror EXCEPT ![w] =
                                SetProfile(@, vanityHostname,
                                    [profileToState(remote, key, now)
                                        EXCEPT !.Hostname = vanityHostname], now)]
                          /\ ReturnNil(w)
                     ELSE /\ UNCHANGED mirror
                          /\ ReturnNil(w)
    /\ UNCHANGED <<remote, cnames, changes, now>>
    /\ UNCHANGED managerVars
    /\ UNCHANGED callVars

\* tmClient.GetProfileState: an empty profile is deleted next, a non-empty
\* one is stored in the mirror, a failure is ignored
DeleteRefetchCall(w) ==
    /\ AtStep(w, "delete", "refetch")
    /\ LET e == Item(w)
           c == deleteConfig(e)
           key == ProfileKey(c)
           vanityHostname == VanityOf(c, e.DNSName)
       IN  \E out \in GetProfileOutcomes(key) :
              /\ Issue(w, "GetProfileState", key, <<>>, out)
              /\ IF out = "ok" /\ DOMAIN remote[key].Endpoints = {}
                 THEN /\ UNCHANGED mirror
                      /\ Goto(w, "profile", 0)
                 ELSE IF out = "ok"
                 THEN /\ mirror' = [mirror EXCEPT ![w] =
                            SetProfile(@, vanityHostname,
                                [profileToState(remote, key, now)
                                    EXCEPT !.Hostname = vanityHostname], now)]
                      /\ ReturnNil(w)
                 ELSE /\ UNCHANGED mirror
                      /\ ReturnNil(w)
    /\ UNCHANGED <<remote, cnames, changes, now>>
    /\ UNCHANGED managerVars
    /\ UNCHANGED callVars

\* tmClient.DeleteProfile of the empty profile; a failure is logged, a success
\* removes the mirror entry of the vanity hostname
DeleteProfileCall(w) ==
    /\ AtStep(w, "delete", "profile")
    /\ LET e == Item(w)
           c == deleteConfig(e)
           key == ProfileKey(c)
           vanityHostname == VanityOf(c, e.DNSName)
       IN  \E out \in DeleteProfileOutcomes(key) :
              /\ Issue(w, "DeleteProfile", key, <<>>, out)
              /\ IF out = "ok"
                 THEN /\ remote' = RemoveProfile(remote, key)
                      /\ mirror' = [mirror EXCEPT ![w] = DeleteProfile(@, vanityHostname)]
                      /\ IF CnameDeleteWanted(vanityHostname, e.DNSName)
                         THEN Goto(w, "cname", 0)
                         ELSE ReturnNil(w)
                 ELSE /\ UNCHANGED <<remote, mirror>>
                      /\ ReturnNil(w)
    /\ UNCHANGED <<cnames, changes, now>>
    /\ UNCHANGED managerVars
    /\ UNCHANGED callVars

\* dnsEndpointManager.Delete; its failure is logged only
DeleteCnameCall(w) ==
    /\ AtStep(w, "delete", "cname")
    /\ LET e == Item(w)
           c == deleteConfig(e)
           name == GenerateName(VanityOf(c, e.DNSName))
       IN  \E out \in CnameDeleteOutcomes(w, name) :
              /\ Issue(w, "DeleteCNAME", ProfileKey(c), name, out)
              /\ cnames' = IF out = "ok"
                           THEN [cnames EXCEPT ![w] = [n \in (DOMAIN @) \ {name} |-> @[n]]]
                           ELSE cnames
              /\ ReturnNil(w)
    /\ UNCHANGED <<remote, mirror, changes, now>>
    /\ UNCHANGED managerVars
    /\ UNCHANGED callVars

\* ------------------------------------------------------------------------
\* Inputs: DNS names, annotation sets, logical endpoints, batches
\* ------------------------------------------------------------------------

EastDNS == <<"e", ".", "x">>
WestDNS == <<"w", ".", "x">>
VanityDNS == <<"v", ".", "x">>
IP1 == <<"1", ".", "1">>
IP2 == <<"2", ".", "2">>
Rg == <<"r", "g">>
SharedTm == <<"s","h","a","r","e","d","-","t","m">>
East == <<"e","a","s","t">>
West == <<"w","e","s","t">>
Region == <<"e","u">>

\* enabled, resource group and endpoint location: everything else defaulted
PlainLabels ==
    (AnnotationEnabled :> StrTrue) @@ (AnnotationResourceGroup :> Rg)
    @@ (AnnotationEndpointLocation :> Region)

\* the shared profile "shared-tm" under the vanity hostname, endpoint name given
SharedLabels(endpointName) ==
    (AnnotationProfileName :> SharedTm) @@ (AnnotationHostname :> VanityDNS)
    @@ (AnnotationEndpointName :> endpointName) @@ PlainLabels

\* a vanity hostname without a profile name: the profile name is generated
VanityLabels == (AnnotationHostname :> VanityDNS) @@ (AnnotationEndpointName :> East) @@ PlainLabels

\* the shared profile without a vanity hostname
NoVanityLabels == (AnnotationProfileName :> SharedTm) @@ (AnnotationEndpointName :> East) @@ PlainLabels

With(labels, key, value) == (key :> value) @@ labels

HeavyLabels == With(SharedLabels(East), AnnotationWeight, <<"1","5","0","0">>)

Weight50Labels == With(SharedLabels(East), AnnotationWeight, <<"5","0">>)

PriorityLabels == With(SharedLabels(East), AnnotationRoutingMethod, <<"P","r","i","o","r","i","t","y">>)

\* disabled, with a malformed weight and no resource group
DisabledLabels == (AnnotationEnabled :> <<"f","a","l","s","e">>) @@ (AnnotationWeight :> <<"a","b","c">>)

\* no enabled annotation at all, out-of-range weight
UnmarkedLabels == (AnnotationWeight :> <<"1","5","0","0">>) @@ (AnnotationResourceGroup :> Rg)

NoLabels == [k \in {} |-> <<>>]

Ep(dnsName, targets, recordType, labels, providerSpecific) ==
    [DNSName |-> dnsName, Targets |-> targets, RecordType |-> recordType,
     Labels |-> labels, ProviderSpecific |-> providerSpecific]

\* the annotations of SharedLabels(East) delivered as provider-specific properties
SharedProps ==
    <<[Name |-> AnnotationEnabled, Value |-> StrTrue],
      [Name |-> AnnotationResourceGroup, Value |-> Rg],
      [Name |-> AnnotationEndpointLocation, Value |-> Region],
      [Name |-> AnnotationProfileName, Value |-> SharedTm],
      [Name |-> AnnotationHostname, Value |-> VanityDNS],
      [Name |-> AnnotationEndpointName, Value |-> East]>>

EastShared == Ep(EastDNS, <<IP1>>, "A", SharedLabels(East), <<>>)
WestShared == Ep(WestDNS, <<IP2>>, "A", SharedLabels(West), <<>>)
EastTwoIPs == Ep(EastDNS, <<IP1, IP2>>, "A", SharedLabels(East), <<>>)
EastTwoCnames == Ep(EastDNS, <<EastDNS, WestDNS>>, "CNAME", SharedLabels(East), <<>>)
EastNoTargets == Ep(EastDNS, <<>>, "A", SharedLabels(East), <<>>)
EastVanity == Ep(EastDNS, <<IP1>>, "A", VanityLabels, <<>>)
EastNoVanity == Ep(EastDNS, <<IP1>>, "A", NoVanityLabels, <<>>)
EastPlain == Ep(EastDNS, <<IP1>>, "A", PlainLabels, <<>>)
EastHeavy == Ep(EastDNS, <<IP1>>, "A", HeavyLabels, <<>>)
EastWeight50 == Ep(EastDNS, <<IP1>>, "A", Weight50Labels, <<>>)
EastTwoIPsWeight50 == Ep(EastDNS, <<IP1, IP2>>, "A", Weight50Labels, <<>>)
EastPriority == Ep(EastDNS, <<IP1>>, "A", PriorityLabels, <<>>)
EastDisabled == Ep(EastDNS, <<IP1>>, "A", DisabledLabels, <<>>)
EastUnmarked == Ep(EastDNS, <<IP1>>, "A", UnmarkedLabels, <<>>)
EastProps == Ep(EastDNS, <<IP1>>, "A", NoLabels, SharedProps)
EastTxt == Ep(EastDNS, <<IP1>>, "TXT", SharedLabels(East), <<>>)

Items ==
    {EastShared, EastTwoIPs, EastTwoCnames, EastNoTargets, EastVanity, EastNoVanity,
     EastPlain, EastHeavy, EastDisabled, EastUnmarked, EastProps, EastTxt}

\* <<old, new>> pairs of an update
UpdatePairs ==
    {<<EastShared, EastWeight50>>, <<EastShared, EastPriority>>, <<EastShared, EastShared>>,
     <<EastTwoIPs, EastTwoIPsWeight50>>, <<EastShared, EastHeavy>>,
     <<EastShared, EastDisabled>>, <<EastDisabled, EastWeight50>>}

Batch(create, updateOld, updateNew, delete) ==
    [Create |-> create, UpdateOld |-> updateOld, UpdateNew |-> updateNew, Delete |-> delete]

NoChanges == Batch(<<>>, <<>>, <<>>, <<>>)

UpTo1(S) == {<<>>} \cup {<<x>> : x \in S}

\* the batches of the single-writer specification: at most one create, one
\* update and one delete
Batches ==
    {Batch(c, IF u = <<>> THEN <<>> ELSE <<u[1][1]>>, IF u = <<>> THEN <<>> ELSE <<u[1][2]>>, d) :
        c \in UpTo1(Items), u \in UpTo1(UpdatePairs), d \in UpTo1(Items)}

\* the shared endpoint with endpoint priority 2 instead of the default 1
EastSecond == Ep(EastDNS, <<IP1>>, "A", With(SharedLabels(East), AnnotationPriority, <<"2">>), <<>>)

\* a CNAME endpoint with two targets whose profile and endpoint names are generated
EastTwoCnamesPlain == Ep(EastDNS, <<EastDNS, WestDNS>>, "CNAME", PlainLabels, <<>>)

\* the ownership record of the shared endpoint, carrying another weight
EastTxtWeight50 == Ep(EastDNS, <<IP1>>, "TXT", Weight50Labels, <<>>)

\* the shared endpoint with a weight that is no number: its labels do not parse
EastMalformed ==
    Ep(EastDNS, <<IP1>>, "A", With(SharedLabels(East), AnnotationWeight, <<"a","b","c">>), <<>>)

\* further batches: two items in one list, a create that asks for another
\* routing method than the shared profile has, an update of the endpoint
\* priority alone, a create next to the delete of the other endpoint of
\* the profile,
\* a CNAME endpoint with two targets, updates of a TXT item and of an item
\* whose labels do not parse, and an update whose old list is longer than
\* its new list
LongBatches ==
    {Batch(<<EastShared, EastHeavy>>, <<>>, <<>>, <<>>),
     Batch(<<EastPriority>>, <<>>, <<>>, <<>>),
     Batch(<<EastVanity, EastPlain>>, <<>>, <<>>, <<EastVanity>>),
     Batch(<<>>, <<EastShared>>, <<EastSecond>>, <<>>),
     Batch(<<EastShared>>, <<>>, <<>>, <<WestShared>>),
     Batch(<<EastTwoCnamesPlain>>, <<>>, <<>>, <<>>),
     Batch(<<>>, <<EastTxt>>, <<EastTxtWeight50>>, <<>>),
     Batch(<<>>, <<EastMalformed>>, <<EastShared>>, <<>>),
     Batch(<<>>, <<EastShared, EastShared>>, <<EastWeight50>>, <<>>)}

\* remote states left by earlier runs: nothing, or the shared profile holding
\* the endpoint another cluster created
NoRemote == [k \in {} |-> 0]

RemoteAfterCreate(r, e) ==
    LET c == createConfig(e)
    IN  PutEndpoint(PutProfile(r, ProfileKey(c), ToProfileConfig(c, VanityOf(c, e.DNSName))),
                    ProfileKey(c), createEndpointConfigAt(e, c, 0))

RemoteInits == {NoRemote, RemoteAfterCreate(NoRemote, WestShared)}

InitCommon ==
    /\ mirror = [w \in Writers |-> NoProfiles]
    /\ cnames = [w \in Writers |-> NoProfiles]
    /\ pc = [w \in Writers |-> FirstFrom(changes[w], "create", 1)]
    /\ result = [w \in Writers |-> ResultAt(FirstFrom(changes[w], "create", 1))]
    /\ calls = [w \in Writers |-> <<>>]
    /\ returned = [w \in Writers |-> <<>>]
    /\ faults = 0
    /\ now = 1

\* one writer applies a batch; the other cluster is idle
\* no call under study
CallIdle ==
    /\ input = <<>>
    /\ output = <<>>

\* the state manager as NewManager leaves it, with no caller
ManagerIdle ==
    /\ heap = <<>>
    /\ profiles = <<>>
    /\ mu = [writer |-> "none", readers |-> {}]
    /\ inCall = <<>>
    /\ held = <<>>
    /\ ret = <<>>
    /\ ncalls = 0

Init ==
    /\ remote \in RemoteInits
    /\ changes \in {[w \in Writers |-> IF w = "w1" THEN b ELSE NoChanges] :
                      b \in Batches \cup LongBatches}
    /\ InitCommon
    /\ ManagerIdle
    /\ CallIdle

\* the batches of the two-writer specification
EastWeight50Priority ==
    Ep(EastDNS, <<IP1>>, "A",
       With(Weight50Labels, AnnotationRoutingMethod, <<"P","r","i","o","r","i","t","y">>), <<>>)

ConcBatches ==
    {Batch(<<EastShared>>, <<>>, <<>>, <<>>),
     Batch(<<WestShared>>, <<>>, <<>>, <<>>),
     Batch(<<EastTwoCnames>>, <<>>, <<>>, <<>>),
     Batch(<<>>, <<EastShared>>, <<EastWeight50Priority>>, <<>>),
     Batch(<<>>, <<>>, <<>>, <<EastShared>>),
     Batch(<<WestShared>>, <<>>, <<>>, <<WestShared>>)}

\* two uncoordinated writers, each applying one batch, against a remote that
\* is empty or holds the shared profile with the east endpoint
InitConc ==
    /\ remote \in {NoRemote, RemoteAfterCreate(NoRemote, EastShared)}
    /\ changes \in [Writers -> ConcBatches]
    /\ InitCommon
    /\ ManagerIdle
    /\ CallIdle

Next ==
    \E w \in Writers :
        \/ CreateBegin(w)
        \/ CreateProfileCall(w)
        \/ CreateGetProfileCall(w)
        \/ CreateEndpointCall(w)
        \/ CreateRefetchCall(w)
        \/ CreateCnameCall(w)
        \/ UpdateBegin(w)
        \/ UpdateProfileGetCall(w)
        \/ UpdateProfilePutCall(w)
        \/ UpdateEndpointCall(w)
        \/ UpdateRefetchCall(w)
        \/ DeleteBegin(w)
        \/ DeleteEndpointCall(w)
        \/ DeleteRefetchCall(w)
        \/ DeleteProfileCall(w)
        \/ DeleteCnameCall(w)

Spec == Init /\ [][Next]_vars

SpecConc == InitConc /\ [][Next]_vars

\* ------------------------------------------------------------------------
\* The state manager on the Go heap: ProfileState and EndpointState objects
\* with their maps, the manager's RWMutex, and goroutines that call the
\* Manager's methods and edit the objects they hold pointers to
\* ------------------------------------------------------------------------

Goroutines == {"g1", "g2"}

\* NewManager(5*time.Minute): the cache TTL, in minutes
CacheTTL == 5

\* the zero time.Time
ZeroTime == 0

MaxCalls == 3

MaxNow == 7

\* the nil pointer and the nil map
NoRef == 0

NoGoroutine == "none"

MapObj(m) == [kind |-> "map", m |-> m]

EmptyMap == [k \in {} |-> 0]

\* the content of the map a field points to; a nil map reads as an empty one
MapOf(hp, ref) == IF ref = NoRef THEN EmptyMap ELSE hp[ref].m

RECURSIVE SeqOf(_)
SeqOf(S) == IF S = {} THEN <<>> ELSE LET x == CHOOSE y \in S : TRUE IN <<x>> \o SeqOf(S \ {x})

\* EndpointState.Clone
CloneEndpoint(es) ==
    [kind |-> "endpoint", EndpointName |-> es.EndpointName, EndpointType |-> es.EndpointType,
     Target |-> es.Target, Weight |-> es.Weight, Priority |-> es.Priority,
     Status |-> es.Status, Location |-> es.Location,
     CreatedAt |-> es.CreatedAt, UpdatedAt |-> es.UpdatedAt]

\* a copy of the struct that shares the endpoint and tag maps of the original
CloneProfileShallow(hp, id) ==
    [heap |-> Append(hp, hp[id]), ref |-> Len(hp) + 1]

\* ProfileState.Clone of object id: a new struct with newly made Endpoints and
\* Tags maps, the endpoints cloned one by one.  Gives the heap with the new
\* objects and the pointer to the clone.
CloneProfile(hp, id) ==
    LET ps == hp[id]
        endpoints == MapOf(hp, ps.Endpoints)
        names == SeqOf(DOMAIN endpoints)
        base == Len(hp)
        at(n) == CHOOSE i \in 1..Len(names) : names[i] = n
        clone == [kind |-> "profile", ProfileName |-> ps.ProfileName,
                  ResourceGroup |-> ps.ResourceGroup, Hostname |-> ps.Hostname,
                  FQDN |-> ps.FQDN, RoutingMethod |-> ps.RoutingMethod, DNSTTL |-> ps.DNSTTL,
                  Endpoints |-> base + 2, Tags |-> base + 3,
                  CreatedAt |-> ps.CreatedAt, UpdatedAt |-> ps.UpdatedAt,
                  CachedAt |-> ps.CachedAt]
    IN  [heap |-> hp \o <<clone,
                          MapObj([n \in DOMAIN endpoints |-> base + 3 + at(n)]),
                          MapObj(MapOf(hp, ps.Tags))>>
                     \o [i \in 1..Len(names) |-> CloneEndpoint(hp[endpoints[names[i]]])],
         ref |-> base + 1]

\* a comparison that counts an entry of age ttl as expired already
IsExpiredAtTTL(ps, ttl, t) == ps.CachedAt = ZeroTime \/ t - ps.CachedAt >= ttl

\* ProfileState.IsExpired, time.Since(CachedAt) being t - CachedAt
IsExpired(ps, ttl, t) == ps.CachedAt = ZeroTime \/ t - ps.CachedAt > ttl

\* what a pointer to a ProfileState lets one read: its fields, its tags and
\* the fields of its endpoints
EndpointValue(es) == [f \in (DOMAIN es) \ {"kind"} |-> es[f]]

ProfileValue(hp, id) ==
    LET ps == hp[id]
    IN  [f \in (DOMAIN ps) \ {"kind", "Endpoints", "Tags"} |-> ps[f]]
        @@ [Endpoints |-> [n \in DOMAIN MapOf(hp, ps.Endpoints) |->
                              EndpointValue(hp[MapOf(hp, ps.Endpoints)[n]])],
            Tags |-> MapOf(hp, ps.Tags)]

\* the objects reachable from a pointer to a ProfileState
Reach(hp, id) ==
    {id} \cup ({hp[id].Endpoints, hp[id].Tags} \ {NoRef})
         \cup {MapOf(hp, hp[id].Endpoints)[n] : n \in DOMAIN MapOf(hp, hp[id].Endpoints)}

\* --- calls and the lock ------------------------------------------------------

MirrorHosts == {VanityDNS, EastDNS}

EndpointNames == {East, West}

ProfileNames == {SharedTm, generateProfileName(EastDNS)}

ReadOps == {"GetProfile", "ListProfiles", "GetProfileByName", "Count", "GetEndpoint", "GetStats"}

WriteOps == {"SetProfile", "DeleteProfile", "Clear", "SetEndpoint", "DeleteEndpoint"}

Idle == [op |-> "idle", hostname |-> <<>>, name |-> <<>>, ref |-> NoRef]

HeldOfKind(g, kind) == {r \in held[g] : heap[r].kind = kind}

\* the calls goroutine g can make of method op, with the arguments it can pass
CallsOfOp(g, op) ==
    LET call(h, n, r) == [op |-> op, hostname |-> h, name |-> n, ref |-> r]
    IN  CASE op \in {"GetProfile", "DeleteProfile"} -> {call(h, <<>>, NoRef) : h \in MirrorHosts}
          [] op \in {"ListProfiles", "Clear", "Count", "GetStats"} -> {call(<<>>, <<>>, NoRef)}
          [] op = "GetProfileByName" -> {call(<<>>, n, NoRef) : n \in ProfileNames}
          [] op \in {"GetEndpoint", "DeleteEndpoint"} ->
                {call(VanityDNS, n, NoRef) : n \in EndpointNames}
          [] op = "SetProfile" ->
                {call(heap[r].Hostname, <<>>, r) : r \in HeldOfKind(g, "profile")}
          [] op = "SetEndpoint" ->
                {call(VanityDNS, heap[r].EndpointName, r) : r \in HeldOfKind(g, "endpoint")}

NoReturn ==
    [op |-> "none", hostname |-> <<>>, name |-> <<>>, found |-> FALSE, ref |-> NoRef,
     refs |-> {}, count |-> 0, endpoints |-> 0, expired |-> 0]

Enter(g, c) ==
    /\ inCall' = [inCall EXCEPT ![g] = c]
    /\ ncalls' = ncalls + 1
    /\ ret' = [ret EXCEPT ![g] = NoReturn]
    /\ UNCHANGED <<heap, profiles, held, now>>
    /\ UNCHANGED providerVars
    /\ UNCHANGED callVars

\* a read lock taken although a goroutine holds the write lock
RLockIgnoringWriter(g) ==
    /\ inCall[g] = Idle
    /\ ncalls < MaxCalls
    /\ \E op \in ReadOps : \E c \in CallsOfOp(g, op) : Enter(g, c)
    /\ mu' = [mu EXCEPT !.readers = @ \cup {g}]

\* m.mu.RLock() at the entry of a reading method: granted while no goroutine
\* holds the write lock
RLock(g) ==
    /\ inCall[g] = Idle
    /\ ncalls < MaxCalls
    /\ mu.writer = NoGoroutine
    /\ \E op \in ReadOps : \E c \in CallsOfOp(g, op) : Enter(g, c)
    /\ mu' = [mu EXCEPT !.readers = @ \cup {g}]

\* m.mu.Lock() at the entry of a writing method: granted while no goroutine
\* holds the lock in either mode
Lock(g) ==
    /\ inCall[g] = Idle
    /\ ncalls < MaxCalls
    /\ mu.writer = NoGoroutine
    /\ mu.readers = {}
    /\ \E op \in WriteOps : \E c \in CallsOfOp(g, op) : Enter(g, c)
    /\ mu' = [mu EXCEPT !.writer = g]

\* the deferred RUnlock / Unlock and the return of the method
Leave(g, found, ref, refs, count) ==
    /\ mu' = [writer |-> IF mu.writer = g THEN NoGoroutine ELSE mu.writer,
              readers |-> mu.readers \ {g}]
    /\ inCall' = [inCall EXCEPT ![g] = Idle]
    /\ ret' = [ret EXCEPT ![g] =
                 [NoReturn EXCEPT !.op = inCall[g].op, !.hostname = inCall[g].hostname,
                                  !.name = inCall[g].name, !.found = found, !.ref = ref,
                                  !.refs = refs, !.count = count]]
    /\ UNCHANGED <<ncalls, now>>
    /\ UNCHANGED providerVars
    /\ UNCHANGED callVars

Stored(h) == heap[profiles[h]]

\* the lookup of GetProfile: the entry exists and is not expired
Visible(h) == h \in DOMAIN profiles /\ ~IsExpired(Stored(h), CacheTTL, now)

MgrGetProfile(g) ==
    /\ inCall[g].op = "GetProfile"
    /\ LET h == inCall[g].hostname
           cl == CloneProfile(heap, profiles[h])
       IN  IF Visible(h)
           THEN /\ heap' = cl.heap
                /\ held' = [held EXCEPT ![g] = @ \cup {cl.ref}]
                /\ Leave(g, TRUE, cl.ref, {}, 0)
           ELSE /\ UNCHANGED <<heap, held>>
                /\ Leave(g, FALSE, NoRef, {}, 0)
    /\ UNCHANGED profiles

\* the clones ListProfiles appends, in the order the map is ranged over
RECURSIVE CloneAll(_, _)
CloneAll(hp, ids) ==
    IF ids = <<>> THEN [heap |-> hp, refs |-> {}]
    ELSE LET cl == CloneProfile(hp, Head(ids))
             rest == CloneAll(cl.heap, Tail(ids))
         IN  [heap |-> rest.heap, refs |-> {cl.ref} \cup rest.refs]

MgrListProfiles(g) ==
    /\ inCall[g].op = "ListProfiles"
    /\ LET all == CloneAll(heap, [i \in 1..Cardinality(DOMAIN profiles) |->
                                     profiles[SeqOf(DOMAIN profiles)[i]]])
       IN  /\ heap' = all.heap
           /\ held' = [held EXCEPT ![g] = @ \cup all.refs]
           /\ Leave(g, TRUE, NoRef, all.refs, Cardinality(all.refs))
    /\ UNCHANGED profiles

\* the range over the map returns the first profile of that name it meets
MgrGetProfileByName(g) ==
    /\ inCall[g].op = "GetProfileByName"
    /\ LET matches == {h \in DOMAIN profiles : Stored(h).ProfileName = inCall[g].name}
       IN  IF matches = {}
           THEN /\ UNCHANGED <<heap, held>>
                /\ Leave(g, FALSE, NoRef, {}, 0)
           ELSE \E h \in matches :
                   LET cl == CloneProfile(heap, profiles[h])
                   IN  /\ heap' = cl.heap
                       /\ held' = [held EXCEPT ![g] = @ \cup {cl.ref}]
                       /\ Leave(g, TRUE, cl.ref, {}, 0)
    /\ UNCHANGED profiles

MgrCount(g) ==
    /\ inCall[g].op = "Count"
    /\ Leave(g, TRUE, NoRef, {}, Cardinality(DOMAIN profiles))
    /\ UNCHANGED <<heap, profiles, held>>

\* GetEndpoint: GetProfile, then a clone of the endpoint of the returned clone
MgrGetEndpoint(g) ==
    /\ inCall[g].op = "GetEndpoint"
    /\ LET h == inCall[g].hostname
           cl == CloneProfile(heap, profiles[h])
           endpoints == MapOf(cl.heap, cl.heap[cl.ref].Endpoints)
       IN  IF ~Visible(h)
           THEN /\ UNCHANGED <<heap, held>>
                /\ Leave(g, FALSE, NoRef, {}, 0)
           ELSE IF inCall[g].name \notin DOMAIN endpoints
           THEN /\ heap' = cl.heap
                /\ UNCHANGED held
                /\ Leave(g, FALSE, NoRef, {}, 0)
           ELSE /\ heap' = Append(cl.heap, CloneEndpoint(cl.heap[endpoints[inCall[g].name]]))
                /\ held' = [held EXCEPT ![g] = @ \cup {Len(cl.heap) + 1}]
                /\ Leave(g, TRUE, Len(cl.heap) + 1, {}, 0)
    /\ UNCHANGED profiles

MgrGetStats(g) ==
    /\ inCall[g].op = "GetStats"
    /\ LET endpointsOf(h) == {<<h, n>> : n \in DOMAIN MapOf(heap, Stored(h).Endpoints)}
           expired == {h \in DOMAIN profiles : IsExpired(Stored(h), CacheTTL, now)}
       IN  /\ mu' = [writer |-> mu.writer, readers |-> mu.readers \ {g}]
           /\ inCall' = [inCall EXCEPT ![g] = Idle]
           /\ ret' = [ret EXCEPT ![g] =
                        [NoReturn EXCEPT !.op = "GetStats", !.found = TRUE,
                                         !.count = Cardinality(DOMAIN profiles),
                                         !.endpoints = Cardinality(UNION {endpointsOf(h) : h \in DOMAIN profiles}),
                                         !.expired = Cardinality(expired), !.at = now]]
    /\ UNCHANGED <<heap, profiles, held, ncalls, now>>
    /\ UNCHANGED providerVars
    /\ UNCHANGED callVars

\* SetProfile: stamps CachedAt on the caller's object, then stores a clone
MgrSetProfile(g) ==
    /\ inCall[g].op = "SetProfile"
    /\ LET h == inCall[g].hostname
           stamped == [heap EXCEPT ![inCall[g].ref].CachedAt = now]
           cl == CloneProfile(stamped, inCall[g].ref)
       IN  /\ heap' = cl.heap
           /\ profiles' = (h :> cl.ref) @@ profiles
    /\ Leave(g, TRUE, inCall[g].ref, {}, 0)
    /\ UNCHANGED held

\* a DeleteProfile that empties the whole map
MgrDeleteProfileOfAll(g) ==
    /\ inCall[g].op = "DeleteProfile"
    /\ profiles' = EmptyMap
    /\ Leave(g, TRUE, NoRef, {}, 0)
    /\ UNCHANGED <<heap, held>>

\* DeleteProfile: delete(m.profiles, hostname)
MgrDeleteProfile(g) ==
    /\ inCall[g].op = "DeleteProfile"
    /\ profiles' = [h \in (DOMAIN profiles) \ {inCall[g].hostname} |-> profiles[h]]
    /\ Leave(g, TRUE, NoRef, {}, 0)
    /\ UNCHANGED <<heap, held>>

MgrClear(g) ==
    /\ inCall[g].op = "Clear"
    /\ profiles' = EmptyMap
    /\ Leave(g, TRUE, NoRef, {}, 0)
    /\ UNCHANGED <<heap, held>>

\* SetEndpoint: a clone of the caller's endpoint goes into the Endpoints map
\* of the stored profile (made first when nil), which is stamped
MgrSetEndpoint(g) ==
    /\ inCall[g].op = "SetEndpoint"
    /\ LET h == inCall[g].hostname
           id == profiles[h]
           made == IF heap[id].Endpoints = NoRef
                   THEN [Append(heap, MapObj(EmptyMap)) EXCEPT ![id].Endpoints = Len(heap) + 1]
                   ELSE heap
           new == Len(made) + 1
       IN  IF h \notin DOMAIN profiles
           THEN /\ UNCHANGED heap
                /\ Leave(g, FALSE, NoRef, {}, 0)
           ELSE /\ heap' = [Append(made, CloneEndpoint(heap[inCall[g].ref]))
                              EXCEPT ![made[id].Endpoints].m = (inCall[g].name :> new) @@ @,
                                     ![id].UpdatedAt = now,
                                     ![id].CachedAt = now]
                /\ Leave(g, TRUE, NoRef, {}, 0)
    /\ UNCHANGED <<profiles, held>>

MgrDeleteEndpoint(g) ==
    /\ inCall[g].op = "DeleteEndpoint"
    /\ LET h == inCall[g].hostname
           id == profiles[h]
           emap == heap[id].Endpoints
           stamped == [heap EXCEPT ![id].UpdatedAt = now, ![id].CachedAt = now]
       IN  IF h \notin DOMAIN profiles
           THEN /\ UNCHANGED heap
                /\ Leave(g, FALSE, NoRef, {}, 0)
           ELSE /\ heap' = IF emap = NoRef THEN stamped
                           ELSE [stamped EXCEPT ![emap].m =
                                    [n \in (DOMAIN @) \ {inCall[g].name} |-> @[n]]]
                /\ Leave(g, TRUE, NoRef, {}, 0)
    /\ UNCHANGED <<profiles, held>>

\* --- the callers -------------------------------------------------------------

Renamed == <<"m","o","d","i","f","i","e","d">>

NewKey == "newkey"

\* the edits a goroutine can make through a pointer r it holds: a field of the
\* struct, an entry of its tag map, an entry of its endpoint map, a field of
\* one of its endpoints
Edits(g, r) ==
    LET ps == heap[r]
    IN  IF ps.kind = "endpoint" THEN {[heap EXCEPT ![r].Weight = @ + 1]}
        ELSE {[heap EXCEPT ![r].ProfileName = Renamed]}
             \cup (IF ps.Tags = NoRef THEN {}
                   ELSE {[heap EXCEPT ![ps.Tags].m = (NewKey :> Renamed) @@ @]})
             \cup {[heap EXCEPT ![ps.Endpoints].m = [k \in (DOMAIN @) \ {n} |-> @[k]]] :
                      n \in DOMAIN MapOf(heap, ps.Endpoints)}
             \cup {[heap EXCEPT ![MapOf(heap, ps.Endpoints)[n]].Weight = @ + 1] :
                      n \in DOMAIN MapOf(heap, ps.Endpoints)}

\* a goroutine edits, outside of any Manager call, an object it holds
CallerMutates(g) ==
    /\ inCall[g] = Idle
    /\ ncalls < MaxCalls
    /\ \E r \in held[g] : \E hp \in Edits(g, r) :
          /\ hp # heap
          /\ heap' = hp
    /\ ncalls' = ncalls + 1
    /\ UNCHANGED <<profiles, mu, inCall, held, ret, now>>
    /\ UNCHANGED providerVars
    /\ UNCHANGED callVars

\* a goroutine asks a ProfileState it holds whether it is expired
CallerIsExpired(g) ==
    /\ inCall[g] = Idle
    /\ ncalls < MaxCalls
    /\ \E r \in HeldOfKind(g, "profile") :
          ret' = [ret EXCEPT ![g] =
                    [NoReturn EXCEPT !.op = "IsExpired", !.ref = r,
                                     !.found = IsExpired(heap[r], CacheTTL, now)]]
    /\ ncalls' = ncalls + 1
    /\ UNCHANGED <<heap, profiles, mu, inCall, held, now>>
    /\ UNCHANGED providerVars
    /\ UNCHANGED callVars

\* time passes: a whole TTL, or a minute more than that
Tick ==
    /\ \E d \in {CacheTTL, CacheTTL + 1} :
          /\ now + d <= MaxNow
          /\ now' = now + d
    /\ UNCHANGED managerVars
    /\ UNCHANGED callVars
    /\ UNCHANGED providerVars

\* --- initial heap ---------------------------------------------------------------

EndpointObj(name, weight) ==
    [kind |-> "endpoint", EndpointName |-> name, EndpointType |-> DefaultEndpointType,
     Target |-> EastDNS, Weight |-> weight, Priority |-> DefaultPriority,
     Status |-> DefaultEndpointStatus, Location |-> Region,
     CreatedAt |-> 1, UpdatedAt |-> 1]

ProfileObj(name, hostname, endpoints, tags, t) ==
    [kind |-> "profile", ProfileName |-> name, ResourceGroup |-> Rg, Hostname |-> hostname,
     FQDN |-> FqdnOf(name), RoutingMethod |-> DefaultRoutingMethod, DNSTTL |-> DefaultDNSTTL,
     Endpoints |-> endpoints, Tags |-> tags, CreatedAt |-> t, UpdatedAt |-> t, CachedAt |-> t]

\* g1 holds a profile as profileToState builds it, with one endpoint and its
\* tags, and an endpoint of its own; g2 holds a profile built as a struct
\* literal, its maps nil and its times zero
InitialHeap ==
    <<ProfileObj(SharedTm, VanityDNS, 2, 3, 1),
      MapObj(East :> 4),
      MapObj("hostname" :> VanityDNS),
      EndpointObj(East, DefaultWeight),
      EndpointObj(West, DefaultWeight),
      ProfileObj(generateProfileName(EastDNS), EastDNS, NoRef, NoRef, ZeroTime)>>

ManagerInit ==
    /\ heap = InitialHeap
    /\ profiles = EmptyMap
    /\ mu = [writer |-> NoGoroutine, readers |-> {}]
    /\ inCall = [g \in Goroutines |-> Idle]
    /\ held = [g \in Goroutines |-> IF g = "g1" THEN {1, 5} ELSE {6}]
    /\ ret = [g \in Goroutines |-> NoReturn]
    /\ ncalls = 0

\* the provider does nothing
ProviderIdle ==
    /\ remote = NoRemote
    /\ changes = [w \in Writers |-> NoChanges]
    /\ InitCommon

InitMirror == ProviderIdle /\ ManagerInit /\ CallIdle

NextMirror ==
    \/ Tick
    \/ \E g \in Goroutines :
          \/ RLock(g)
          \/ Lock(g)
          \/ MgrGetProfile(g)
          \/ MgrSetProfile(g)
          \/ MgrDeleteProfile(g)
          \/ MgrListProfiles(g)
          \/ MgrGetProfileByName(g)
          \/ MgrClear(g)
          \/ MgrCount(g)
          \/ MgrGetEndpoint(g)
          \/ MgrSetEndpoint(g)
          \/ MgrDeleteEndpoint(g)
          \/ MgrGetStats(g)
          \/ CallerMutates(g)
          \/ CallerIsExpired(g)

SpecMirror == InitMirror /\ [][NextMirror]_vars

\* ------------------------------------------------------------------------
\* Properties
\* ------------------------------------------------------------------------

EnabledIn(a) == AnnotationEnabled \in DOMAIN a /\ ToLower(a[AnnotationEnabled]) = StrTrue

CreateAnnotations(e) == annotationMap(e.Labels, e.ProviderSpecific)

\* a routing record whose annotations enable Traffic Manager, name a resource
\* group and carry a weight that is an integer outside 1..1000
WeightOutOfRange(e) ==
    LET a == CreateAnnotations(e)
    IN  /\ e.RecordType # "TXT"
        /\ EnabledIn(a)
        /\ Lookup(a, AnnotationResourceGroup) # <<>>
        /\ Present(a, AnnotationWeight)
        /\ ParseInt(a[AnnotationWeight]).ok
        /\ (ParseInt(a[AnnotationWeight]).val < 1 \/ ParseInt(a[AnnotationWeight]).val > 1000)

\* C3: a Create whose weight annotation is an integer outside 1..1000 returns
\* the validation error that names the weight, and its handling issues no
\* remote call (the call log, the remote profiles and the CNAME objects are
\* as before) and leaves the State Mirror as it was.
C3_WeightRejectedWithoutRemoteCall ==
    [][\A w \in Writers :
          (AtStep(w, "create", "begin") /\ WeightOutOfRange(Item(w)) /\ pc'[w] # pc[w])
          => /\ result'[w] = Failed("invalid Traffic Manager configuration",
                                    "weight must be between 1 and 1000")
             /\ pc'[w] = Done
             /\ calls' = calls
             /\ remote' = remote
             /\ mirror' = mirror
             /\ cnames' = cnames]_vars

\* C3 witness: ApplyChanges returned the weight error for the create of an
\* out-of-range weight, after an earlier create of the batch filled the mirror
C3_Witness ==
    \E w \in Writers :
        /\ result[w] = Failed("invalid Traffic Manager configuration",
                              "weight must be between 1 and 1000")
        /\ Len(changes[w].Create) = 2
        /\ WeightOutOfRange(changes[w].Create[2])
        /\ DOMAIN mirror[w] # {}

\* --- two writers creating in one shared profile --------------------------

\* the batch of w is a single create
SingleCreate(w) ==
    /\ Len(changes[w].Create) = 1
    /\ changes[w].UpdateOld = <<>> /\ changes[w].UpdateNew = <<>> /\ changes[w].Delete = <<>>

\* a create that reaches the remote: a routing record, enabled, parsed, valid
Performs(e) ==
    /\ e.RecordType # "TXT"
    /\ ParseConfig(CreateAnnotations(e)).err = ""
    /\ ParseConfig(CreateAnnotations(e)).config.Enabled
    /\ ValidateConfig(ParseConfig(CreateAnnotations(e)).config) = ""

ConfiguredProfile(e) ==
    <<Lookup(CreateAnnotations(e), AnnotationResourceGroup),
      Lookup(CreateAnnotations(e), AnnotationProfileName)>>

ConfiguredEndpoint(e) == Lookup(CreateAnnotations(e), AnnotationEndpointName)

\* no remote call of w failed, but for the benign conflict on profile create
NoRealFailure(w) ==
    \A i \in DOMAIN calls[w] :
        \/ calls[w][i].out = "ok"
        \/ calls[w][i].op = "CreateProfile" /\ calls[w][i].out = "conflict"

EndpointNamesOf(key) == IF RemoteHas(remote, key) THEN DOMAIN remote[key].Endpoints ELSE {}

\* both writers ran one Create each, for the same configured profile name in
\* the same resource group, with distinct configured endpoint names, and
\* both ApplyChanges returned with every remote call having succeeded
TwoCreatesDone ==
    /\ \A w \in Writers :
          /\ SingleCreate(w)
          /\ Performs(changes[w].Create[1])
          /\ pc[w] = Done
          /\ NoRealFailure(w)
    /\ ConfiguredProfile(changes["w1"].Create[1]) = ConfiguredProfile(changes["w2"].Create[1])
    /\ ConfiguredProfile(changes["w1"].Create[1])[2] # <<>>
    /\ ConfiguredEndpoint(changes["w1"].Create[1]) # <<>>
    /\ ConfiguredEndpoint(changes["w2"].Create[1]) # <<>>
    /\ ConfiguredEndpoint(changes["w1"].Create[1]) # ConfiguredEndpoint(changes["w2"].Create[1])

ConvergedOnBoth ==
    /\ RemoteHas(remote, ConfiguredProfile(changes["w1"].Create[1]))
    /\ EndpointNamesOf(ConfiguredProfile(changes["w1"].Create[1]))
         = {ConfiguredEndpoint(changes["w1"].Create[1]),
            ConfiguredEndpoint(changes["w2"].Create[1])}

AllCallsOk(w) == \A i \in DOMAIN calls[w] : calls[w][i].out = "ok"

\* the names of the remote endpoints createEndpoint writes for e
CreateNames(e) ==
    {createEndpointNameAt(e, createConfig(e), i) : i \in 0..(Len(createTargets(e)) - 1)}

\* the batch of w creates one logical endpoint and deletes the same one
CreateThenDelete(w) ==
    /\ Len(changes[w].Create) = 1
    /\ changes[w].UpdateOld = <<>> /\ changes[w].UpdateNew = <<>>
    /\ changes[w].Delete = changes[w].Create

\* C2: for a valid enabled configuration, a Create followed by a Delete of the
\* same logical endpoint with the same annotations, all remote calls having
\* succeeded and no other endpoint being in the profile, leaves no remote
\* profile of the name Create resolved and no mirror entry for the vanity
\* hostname.
C2_CreateThenDeleteLeavesNothing ==
    \A w \in Writers :
        (/\ CreateThenDelete(w)
         /\ Performs(changes[w].Create[1])
         /\ pc[w] = Done
         /\ AllCallsOk(w)
         /\ EndpointNamesOf(ProfileKey(createConfig(changes[w].Create[1])))
               \subseteq CreateNames(changes[w].Create[1]))
        => LET e == changes[w].Create[1]
               c == createConfig(e)
           IN  /\ ~RemoteHas(remote, ProfileKey(c))
               /\ VanityOf(c, e.DNSName) \notin DOMAIN mirror[w]

\* --- update of the weight only ---------------------------------------------

\* the calls w issued with operation op while handling item idx of list phase
CallsOf(w, phase, idx, ops) ==
    SelectSeq(calls[w], LAMBDA c : c.phase = phase /\ c.idx = idx /\ c.op \in ops)

HasReturned(w, phase, idx) ==
    \E i \in DOMAIN returned[w] : returned[w][i].phase = phase /\ returned[w][i].idx = idx

\* old and new configuration are both enabled, the new one is valid, and the
\* weight is the only field in which they differ
OnlyWeightDiffers(oldEndpoint, newEndpoint) ==
    LET o == ParseConfig(oldEndpoint.Labels)
        n == ParseConfig(newEndpoint.Labels)
    IN  /\ o.err = "" /\ n.err = ""
        /\ o.config.Enabled /\ n.config.Enabled
        /\ ValidateConfig(n.config) = ""
        /\ o.config.Weight # n.config.Weight
        /\ [o.config EXCEPT !.Weight = n.config.Weight] = n.config

WeightOnlyUpdateReturned(w, i) ==
    /\ i \in DOMAIN changes[w].UpdateOld /\ i \in DOMAIN changes[w].UpdateNew
    /\ HasReturned(w, "update", i)
    /\ OnlyWeightDiffers(changes[w].UpdateOld[i], changes[w].UpdateNew[i])

ProfileWrites(w, i) == CallsOf(w, "update", i, {"GetProfile", "UpdateProfile"})

EndpointWrites(w, i) == CallsOf(w, "update", i, {"UpdateEndpoint"})

\* C4 as stated: an Update in which the weight is the only field that differs
\* issues exactly one remote endpoint update and no remote profile update.
C4_Original ==
    \A w \in Writers : \A i \in 1..Len(changes[w].UpdateOld) :
        WeightOnlyUpdateReturned(w, i)
        => Len(EndpointWrites(w, i)) = 1 /\ Len(ProfileWrites(w, i)) = 0

\* C4 amended: such an Update issues no remote profile update and one remote
\* endpoint update per target of the new logical endpoint, each for the
\* resolved endpoint name, stopping at the first that fails; that is exactly
\* one for a logical endpoint of one target.
C4_WeightOnlyUpdate ==
    \A w \in Writers : \A i \in 1..Len(changes[w].UpdateOld) :
        WeightOnlyUpdateReturned(w, i)
        => LET e == changes[w].UpdateNew[i]
               ws == EndpointWrites(w, i)
           IN  /\ Len(ProfileWrites(w, i)) = 0
               /\ Len(ws) <= Len(e.Targets)
               /\ \A k \in DOMAIN ws :
                     /\ ws[k].endpoint = updateConfig(e).EndpointName
                     /\ ws[k].out # "ok" => k = Len(ws)
               /\ (Len(ws) < Len(e.Targets)) => (Len(ws) > 0 /\ ws[Len(ws)].out # "ok")
               /\ (Len(e.Targets) = 1) => Len(ws) = 1

\* C4 witness: a weight-only update of a two-target endpoint returned after
\* two successful endpoint updates
C4_Witness ==
    \E w \in Writers :
        /\ WeightOnlyUpdateReturned(w, 1)
        /\ Len(changes[w].UpdateNew[1].Targets) = 2
        /\ Len(EndpointWrites(w, 1)) = 2
        /\ \A k \in 1..2 : EndpointWrites(w, 1)[k].out = "ok"

\* --- disabled configurations -----------------------------------------------

\* the annotation set the handler of the current item of w parses
HandlerAnnotations(w) ==
    IF pc[w].op = "create" THEN CreateAnnotations(Item(w)) ELSE Item(w).Labels

\* w is about to handle an item whose enabled annotation is absent or not
\* "true" (compared case-insensitively, as the parser does)
AtDisabledItem(w) ==
    /\ pc[w].op \in {"create", "update", "delete"}
    /\ pc[w].step = "begin"
    /\ ~EnabledIn(HandlerAnnotations(w))

\* C5: the handling of a disabled configuration by Create, Update and Delete
\* returns success in one step that issues no remote call, changes neither
\* the remote nor the State Mirror nor the CNAME objects, and does so
\* whatever the other annotations are (none of them is parsed or validated).
C5_DisabledIsNoOp ==
    [][\A w \in Writers :
          (AtDisabledItem(w) /\ pc'[w] # pc[w])
          => /\ returned'[w] = Append(returned[w], Returned(w, FALSE))
             /\ result'[w].status \in {"running", "ok"}
             /\ pc'[w] = FirstFrom(changes[w], pc[w].op, pc[w].idx + 1)
             /\ calls' = calls
             /\ remote' = remote
             /\ mirror' = mirror
             /\ cnames' = cnames]_vars

\* C5 witness: a Delete of a disabled endpoint with a malformed weight and no
\* resource group returned success, the mirror holding an entry
C5_Witness ==
    \E w \in Writers :
        /\ Len(changes[w].Delete) = 1
        /\ ~EnabledIn(changes[w].Delete[1].Labels)
        /\ Present(changes[w].Delete[1].Labels, AnnotationWeight)
        /\ ~ParseInt(changes[w].Delete[1].Labels[AnnotationWeight]).ok
        /\ HasReturned(w, "delete", 1)
        /\ result[w] = Ok
        /\ DOMAIN mirror[w] # {}

\* --- Delete: re-fetch and clean-up -----------------------------------------

DeleteKey(w) == ProfileKey(deleteConfig(Item(w)))

DeleteVanity(w) == VanityOf(deleteConfig(Item(w)), Item(w).DNSName)

LastCall(w) == calls'[w][Len(calls'[w])]

\* w issued exactly one more remote call, of operation op on its profile
IssuedOne(w, op) ==
    /\ Len(calls'[w]) = Len(calls[w]) + 1
    /\ LastCall(w).op = op
    /\ LastCall(w).key = DeleteKey(w)

\* the handler of the current Delete item of w goes on or returns success
DeleteGoesOn(w, steps) ==
    \/ /\ returned' = returned
       /\ pc'[w].op = "delete" /\ pc'[w].idx = pc[w].idx /\ pc'[w].step \in steps
    \/ /\ returned'[w] = Append(returned[w], Returned(w, FALSE))
       /\ result'[w].status \in {"running", "ok"}

\* an endpoint deletion, whatever its outcome, is followed by the next
\* deletion or, after the last target, by the re-fetch
EndpointDeletionsThenRefetch(w) ==
    (AtStep(w, "delete", "endpoint") /\ pc'[w] # pc[w])
    => /\ IssuedOne(w, "DeleteEndpoint")
       /\ returned' = returned
       /\ pc'[w].op = "delete" /\ pc'[w].idx = pc[w].idx
       /\ pc'[w].step = IF pc[w].t + 1 < Len(Item(w).Targets) THEN "endpoint" ELSE "refetch"

\* the re-fetch: an empty profile is deleted next, a non-empty one is kept
\* and stored under the vanity hostname
RefetchDecides(w) ==
    (AtStep(w, "delete", "refetch") /\ pc'[w] # pc[w])
    => /\ IssuedOne(w, "GetProfileState")
       /\ remote' = remote
       /\ IF LastCall(w).out # "ok" THEN mirror' = mirror /\ DeleteGoesOn(w, {})
          ELSE IF DOMAIN remote[DeleteKey(w)].Endpoints = {}
          THEN mirror' = mirror /\ DeleteGoesOn(w, {"profile"}) /\ pc'[w].step = "profile"
          ELSE /\ DeleteGoesOn(w, {})
               /\ DeleteVanity(w) \in DOMAIN mirror'[w]
               /\ DOMAIN mirror'[w][DeleteVanity(w)].Endpoints
                     = DOMAIN remote[DeleteKey(w)].Endpoints
               /\ mirror'[w][DeleteVanity(w)].ProfileName = DeleteKey(w)[2]

ProfileGone(w) ==
    /\ ~RemoteHas(remote', DeleteKey(w))
    /\ DeleteVanity(w) \notin DOMAIN mirror'[w]

AtProfileDeletion(w) == AtStep(w, "delete", "profile") /\ pc'[w] # pc[w]

DeleteCalls(w, op, out) ==
    \E i \in DOMAIN calls[w] :
        calls[w][i].phase = "delete" /\ calls[w][i].op = op /\ calls[w][i].out = out

CreateKey(w) == ProfileKey(createConfig(Item(w)))

\* routing method, TTL, monitor settings, status and tags of a remote profile
ProfileSettings(p) ==
    [RoutingMethod |-> p.RoutingMethod, DNSTTL |-> p.DNSTTL,
     MonitorProtocol |-> p.MonitorProtocol, MonitorPort |-> p.MonitorPort,
     MonitorPath |-> p.MonitorPath, ProfileStatus |-> p.ProfileStatus, Tags |-> p.Tags]

\* w takes a step of createEndpoint past parsing and validation while the
\* profile it names exists remotely
CreateStepOnExisting(w) ==
    /\ pc[w].op = "create"
    /\ pc[w].step # "begin"
    /\ pc'[w] # pc[w]
    /\ RemoteHas(remote, CreateKey(w))

\* C7: a step of a Create on a profile that already exists remotely leaves
\* the profile in place with the routing method, TTL, monitor settings and
\* tags it had, leaves the endpoints registered by others as they were, and
\* adds or writes only the endpoints of the item being created.
C7_CreateKeepsExistingProfile ==
    [][\A w \in Writers :
          CreateStepOnExisting(w)
          => /\ RemoteHas(remote', CreateKey(w))
             /\ ProfileSettings(remote'[CreateKey(w)]) = ProfileSettings(remote[CreateKey(w)])
             /\ \A n \in DOMAIN remote[CreateKey(w)].Endpoints :
                   \/ n \in CreateNames(Item(w))
                   \/ /\ n \in DOMAIN remote'[CreateKey(w)].Endpoints
                      /\ remote'[CreateKey(w)].Endpoints[n] = remote[CreateKey(w)].Endpoints[n]
             /\ DOMAIN remote'[CreateKey(w)].Endpoints
                   \subseteq DOMAIN remote[CreateKey(w)].Endpoints
                             \cup CreateNames(Item(w))]_vars

\* --- State Mirror writes ----------------------------------------------------

\* the hostnames of the item w is handling: its DNS name and the vanity
\* hostname its hostname annotation gives
ItemHostnames(w) ==
    {Item(w).DNSName,
     VanityOf(IF pc[w].op = "create" THEN createConfig(Item(w)) ELSE deleteConfig(Item(w)),
              Item(w).DNSName)}

\* the remote operations whose result a mirror write records
ProfileReadOps == {"GetProfileState"}
EndpointWriteOps == {"CreateEndpoint", "UpdateEndpoint", "DeleteEndpoint"}

MirrorChanged(w) == mirror'[w] # mirror[w]

\* the step of w issued one remote call, which succeeded
OneCallSucceeded(w) ==
    /\ Len(calls'[w]) = Len(calls[w]) + 1
    /\ LastCall(w).out = "ok"

\* C8: the mirror of a writer changes only in a step of that writer in which
\* a remote call returned success: an entry disappears only with a successful
\* remote profile deletion, an entry appears or is replaced only with a
\* successful profile read or endpoint write.  A step in which the remote
\* call failed or the handler returned an error changes no mirror, and no step
\* changes the entry of a hostname other than the DNS name and the vanity
\* hostname of the item being handled.
C8_MirrorFollowsRemoteSuccess ==
    [][\A w \in Writers :
          /\ MirrorChanged(w)
             => /\ pc'[w] # pc[w]
                /\ pc[w].op \in {"create", "update", "delete"}
                /\ OneCallSucceeded(w)
                /\ IF DOMAIN mirror'[w] # DOMAIN mirror[w] /\ DOMAIN mirror'[w] \subseteq DOMAIN mirror[w]
                   THEN LastCall(w).op = "DeleteProfile"
                   ELSE LastCall(w).op \in ProfileReadOps \cup EndpointWriteOps
                /\ \A h \in (DOMAIN mirror[w] \cup DOMAIN mirror'[w]) \ ItemHostnames(w) :
                      /\ h \in DOMAIN mirror[w] /\ h \in DOMAIN mirror'[w]
                      /\ mirror'[w][h] = mirror[w][h]
          /\ (Len(returned'[w]) > Len(returned[w])
              /\ returned'[w][Len(returned'[w])].failed)
             => mirror' = mirror]_vars

\* C8 witness: the second item of a batch failed at a remote call after the
\* first item stored its entry, which is still there, and nothing was stored
\* for the failed item
C8_Witness ==
    \E w \in Writers :
        /\ Len(changes[w].Create) = 2
        /\ \E i \in DOMAIN returned[w] :
              returned[w][i] = [phase |-> "create", idx |-> 2, failed |-> TRUE]
        /\ \E i \in DOMAIN calls[w] :
              calls[w][i].idx = 2 /\ calls[w][i].op = "CreateEndpoint" /\ calls[w][i].out = "transient"
        /\ VanityDNS \in DOMAIN mirror[w]
        /\ DOMAIN mirror[w][VanityDNS].Endpoints # {}
        /\ EastDNS \notin DOMAIN mirror[w]

\* --- propagation of remote failures -----------------------------------------

\* the calls to the remote control plane (the CNAME objects are a best-effort
\* collaborator, not part of it)
ControlPlaneOps ==
    {"CreateProfile", "GetProfile", "UpdateProfile", "DeleteProfile", "GetProfileState",
     "CreateEndpoint", "UpdateEndpoint", "DeleteEndpoint"}

\* the two failures that are tolerated: "already exists" on the profile
\* create and "not found" on an endpoint deletion
Tolerated(c) ==
    \/ c.op = "CreateProfile" /\ c.out = "conflict"
    \/ c.op = "DeleteEndpoint" /\ c.out = "notfound"

FailedCalls(w) ==
    {i \in DOMAIN calls[w] :
        /\ calls[w][i].op \in ControlPlaneOps
        /\ calls[w][i].out # "ok"
        /\ ~Tolerated(calls[w][i])}

\* C9: an ApplyChanges run that returned success made no control-plane call
\* that failed, the tolerated "already exists" on profile create and
\* "not found" on endpoint deletion apart.
C9_RemoteFailureFailsBatch ==
    \A w \in Writers : result[w] = Ok => FailedCalls(w) = {}

\* --- the CNAME objects are best effort ---------------------------------------

AtCnameCall(w) ==
    /\ pc[w].op \in {"create", "delete"}
    /\ pc[w].step = "cname"
    /\ pc'[w] # pc[w]

CnameOps == {"CreateOrUpdateCNAME", "DeleteCNAME"}

\* C10: the step of a CNAME publish (Create) or CNAME delete (Delete) leaves
\* the remote profiles and endpoints and the State Mirror as they are and
\* makes the handler return success, whether the call succeeded or failed, so
\* the result of ApplyChanges is the one it has without that failure; a failed
\* call leaves the CNAME objects as they are too.  A CNAME publish is issued
\* only for an item whose vanity hostname differs from its DNS name.
C10_CnameBestEffort ==
    [][\A w \in Writers :
          /\ AtCnameCall(w)
             => /\ Len(calls'[w]) = Len(calls[w]) + 1
                /\ LastCall(w).op \in CnameOps
                /\ remote' = remote
                /\ mirror' = mirror
                /\ LastCall(w).out # "ok" => cnames' = cnames
                /\ returned'[w] = Append(returned[w], Returned(w, FALSE))
                /\ pc'[w] = FirstFrom(changes[w], pc[w].op, pc[w].idx + 1)
                /\ result'[w] = ResultAt(pc'[w])
          /\ (Len(calls'[w]) > Len(calls[w]) /\ LastCall(w).op = "CreateOrUpdateCNAME")
             => /\ pc[w].op = "create"
                /\ VanityOf(createConfig(Item(w)), Item(w).DNSName) # Item(w).DNSName]_vars

\* C10 witness: a Create whose CNAME publish failed has returned success, the
\* mirror holding the profile and no CNAME object existing
C10_Witness ==
    \E w \in Writers :
        /\ \E i \in DOMAIN calls[w] :
              /\ calls[w][i].phase = "create"
              /\ calls[w][i].op = "CreateOrUpdateCNAME"
              /\ calls[w][i].out = "transient"
        /\ HasReturned(w, "create", 1)
        /\ result[w] = Ok
        /\ VanityDNS \in DOMAIN mirror[w]
        /\ DOMAIN cnames[w] = {}

\* ------------------------------------------------------------------------
\* Properties of the state manager
\* ------------------------------------------------------------------------

\* the objects goroutine g can reach through the pointers it holds
HeldReach(g) ==
    UNION {IF heap[r].kind = "profile" THEN Reach(heap, r) ELSE {r} : r \in held[g]}

\* the objects the mirror can reach
StoredReach == UNION {Reach(heap, profiles[h]) : h \in DOMAIN profiles}

Returns(g, op) == inCall[g].op = op /\ inCall'[g] = Idle

\* a step a caller takes outside of the manager
CallerStep == ncalls' # ncalls /\ inCall' = inCall

StoredValues(hp, ps) == [h \in DOMAIN ps |-> ProfileValue(hp, ps[h])]

\* C11: SetProfile(h, p) stores a value equal to p in every field (p carrying
\* the CachedAt stamp the call gives it) in objects made by the call;
\* GetProfile(h) of an entry it finds, ListProfiles, GetProfileByName and
\* GetEndpoint return the stored values in objects made by the call; no
\* object of the mirror is reachable from a pointer a caller holds; and an
\* edit a caller makes to an object it holds (a field, the tag map, the
\* endpoint map, an endpoint) leaves every stored value as it was, so what a
\* later getter returns is what the mirror held before the edit.
C11_DeepClones ==
    [][/\ \A g \in Goroutines :
             LET old == 1..Len(heap)
                 h == inCall[g].hostname
                 r == ret'[g].ref
             IN  /\ Returns(g, "SetProfile")
                    => /\ ProfileValue(heap', profiles'[h]) = ProfileValue(heap', inCall[g].ref)
                       /\ profiles'[h] # inCall[g].ref
                       /\ Reach(heap', profiles'[h]) \cap old = {}
                 /\ (Returns(g, "GetProfile") /\ ret'[g].found)
                    => /\ ProfileValue(heap', r) = ProfileValue(heap, profiles[h])
                       /\ Reach(heap', r) \cap old = {}
                       /\ StoredValues(heap', profiles') = StoredValues(heap, profiles)
                 /\ Returns(g, "ListProfiles")
                    => /\ {ProfileValue(heap', x) : x \in ret'[g].refs}
                            = {ProfileValue(heap, profiles[k]) : k \in DOMAIN profiles}
                       /\ \A x \in ret'[g].refs : Reach(heap', x) \cap old = {}
                 /\ (Returns(g, "GetProfileByName") /\ ret'[g].found)
                    => /\ \E k \in DOMAIN profiles :
                             ProfileValue(heap', r) = ProfileValue(heap, profiles[k])
                       /\ Reach(heap', r) \cap old = {}
                 /\ (Returns(g, "GetEndpoint") /\ ret'[g].found)
                    => /\ EndpointValue(heap'[r])
                            = ProfileValue(heap, profiles[h]).Endpoints[inCall[g].name]
                       /\ r \notin old
       /\ CallerStep => StoredValues(heap', profiles') = StoredValues(heap, profiles)
       /\ \A g \in Goroutines : (HeldReach(g) \cap StoredReach = {})']_vars

\* C11 witness: a goroutine has edited the profile GetProfile returned to it,
\* and the caller of SetProfile could edit its own, while the mirror holds
\* the value that was set
C11_Witness ==
    \E g \in Goroutines :
        /\ ret[g].op = "GetProfile"
        /\ ret[g].found
        /\ inCall[g] = Idle
        /\ ret[g].hostname \in DOMAIN profiles
        /\ ProfileValue(heap, ret[g].ref) # ProfileValue(heap, profiles[ret[g].hostname])
        /\ ProfileValue(heap, profiles[ret[g].hostname]).Endpoints # EmptyMap
        /\ \E p \in HeldOfKind(g, "profile") \ {ret[g].ref} :
              ProfileValue(heap, p) = ProfileValue(heap, profiles[ret[g].hostname])

\* C12: GetProfile(h) reports the entry absent when there is none, when the
\* stored entry's CachedAt is the zero time or when it lies more than the TTL
\* in the past, and present otherwise (an entry exactly one TTL old is still
\* present); the read leaves the map and the stored values as they are, so
\* Count, which counts every entry whether expired or not, is unchanged by
\* it.  ProfileState.IsExpired answers the same question for any
\* ProfileState, and says expired for one whose CachedAt is the zero time.
C12_ExpiryOnRead ==
    [][\A g \in Goroutines :
          /\ Returns(g, "GetProfile")
             => LET h == inCall[g].hostname
                    cachedAt == heap[profiles[h]].CachedAt
                IN  /\ ret'[g].found
                        <=> /\ h \in DOMAIN profiles
                            /\ cachedAt # ZeroTime
                            /\ now - cachedAt <= CacheTTL
                    /\ profiles' = profiles
                    /\ StoredValues(heap', profiles') = StoredValues(heap, profiles)
          /\ Returns(g, "Count")
             => ret'[g].count = Cardinality(DOMAIN profiles)
          /\ (CallerStep /\ ret'[g] # ret[g])
             => /\ ret'[g].op = "IsExpired"
                /\ ret'[g].found
                     <=> \/ heap[ret'[g].ref].CachedAt = ZeroTime
                         \/ now - heap[ret'[g].ref].CachedAt > CacheTTL]_vars

\* C12 witness: GetProfile has reported absent an entry that is in the map,
\* set more than a TTL ago, and the map still holds it
C12_Witness ==
    \E g \in Goroutines :
        /\ ret[g].op = "GetProfile"
        /\ ~ret[g].found
        /\ ret[g].hostname \in DOMAIN profiles
        /\ now - heap[profiles[ret[g].hostname]].CachedAt = CacheTTL + 1
        /\ \A k \in Goroutines : inCall[k] = Idle

InMethod(g, ops) == inCall[g].op \in ops

\* the lock discipline in one state
LockHeld ==
    /\ \A g \in Goroutines :
          /\ InMethod(g, WriteOps) => (mu.writer = g /\ mu.readers = {})
          /\ InMethod(g, ReadOps) => (g \in mu.readers /\ mu.writer = NoGoroutine)
    /\ \A g, k \in Goroutines :
          (g # k /\ InMethod(g, WriteOps)) => inCall[k] = Idle

\* C16: a goroutine inside GetProfile, ListProfiles, GetProfileByName, Count
\* or GetStats holds the lock shared, one inside SetProfile, DeleteProfile,
\* Clear, SetEndpoint or DeleteEndpoint holds it exclusively, and while a
\* goroutine is inside a writing method no other goroutine is inside any
\* method; the map and the stored values change only in the step of a
\* goroutine that holds the lock exclusively, and are read only by a
\* goroutine that holds it; and SetProfile(h, .) leaves an entry for h that
\* no read removes, so that GetProfile(h) finds it as long as it is not
\* expired (claim C12) and no DeleteProfile(h) or Clear was called.
C16_LockDiscipline ==
    [][/\ LockHeld
       /\ LockHeld'
       /\ (profiles' # profiles \/ StoredValues(heap', profiles') # StoredValues(heap, profiles))
          => \E g \in Goroutines :
                /\ mu.writer = g
                /\ \E op \in WriteOps : Returns(g, op)
       /\ \A g \in Goroutines :
             /\ (\E op \in ReadOps : Returns(g, op))
                => /\ g \in mu.readers
                   /\ profiles' = profiles
             /\ Returns(g, "SetProfile")
                => /\ inCall[g].hostname \in DOMAIN profiles'
                   /\ ~IsExpired(heap'[profiles'[inCall[g].hostname]], CacheTTL, now')
             /\ (Returns(g, "GetProfile") /\ inCall[g].hostname \in DOMAIN profiles
                   /\ ~IsExpired(heap[profiles[inCall[g].hostname]], CacheTTL, now))
                => ret'[g].found
             /\ (inCall[g].hostname \in DOMAIN profiles
                   /\ inCall[g].hostname \notin DOMAIN profiles')
                => (Returns(g, "DeleteProfile") \/ Returns(g, "Clear"))]_vars

\* C16 witness: after a SetProfile two goroutines are inside GetProfile of
\* that hostname at once, sharing the lock
C16_Witness ==
    /\ mu.readers = Goroutines
    /\ \A g \in Goroutines :
          /\ inCall[g].op = "GetProfile"
          /\ Visible(inCall[g].hostname)

\* ------------------------------------------------------------------------
\* Records: the managed profiles of the configured resource groups, listed
\* group by group, mirrored and published as CNAME records
\* ------------------------------------------------------------------------

HasPrefix(s, prefix) ==
    Len(prefix) <= Len(s) /\ SubSeq(s, 1, Len(prefix)) = prefix

HasSuffix(s, suffix) ==
    Len(suffix) <= Len(s) /\ SubSeq(s, Len(s) - Len(suffix) + 1, Len(s)) = suffix

Dot == <<".">>

WildcardPrefix == <<"*", ".">>

\* a match that takes every hostname ending in the filter, dot or no dot
matchesDomainBareSuffix(hostname, filter) ==
    \/ HasSuffix(hostname, filter)
    \/ /\ HasPrefix(filter, WildcardPrefix)
       /\ HasSuffix(hostname, SubSeq(filter, 3, Len(filter)))

\* matchesDomain: the filter itself, a subdomain of it, or the same against
\* the filter without a leading "*."
matchesDomain(hostname, filter) ==
    \/ hostname = filter
    \/ HasSuffix(hostname, Dot \o filter)
    \/ /\ HasPrefix(filter, WildcardPrefix)
       /\ LET suffix == SubSeq(filter, 3, Len(filter))
          IN  hostname = suffix \/ HasSuffix(hostname, Dot \o suffix)

\* matchesDomainFilter: no filter allows every hostname
matchesDomainFilter(domainFilter, hostname) ==
    \/ Len(domainFilter) = 0
    \/ \E i \in DOMAIN domainFilter : matchesDomain(hostname, domainFilter[i])

\* a check that takes any managedBy tag for this engine's
isManagedByAnyone(p) == "managedBy" \in DOMAIN p.Tags

\* isManagedByUs: the managedBy tag is there and names this engine
isManagedByUs(p) ==
    /\ "managedBy" \in DOMAIN p.Tags
    /\ p.Tags["managedBy"] = ManagedByValue

\* listProfilesInResourceGroup: the managed profiles of the group, as state
listProfilesInResourceGroup(r, rg, t) ==
    LET keys == SeqOf({k \in DOMAIN r : k[1] = rg /\ isManagedByUs(r[k])})
    IN  [i \in 1..Len(keys) |-> profileToState(r, keys[i], t)]

RecordTTL == 300

\* the CNAME record Records builds for a profile
RecordOf(ps) ==
    [DNSName |-> ps.Hostname, Targets |-> <<ps.FQDN>>, RecordType |-> "CNAME",
     RecordTTL |-> RecordTTL,
     Labels |-> [profile |-> ps.ProfileName, resourceGroup |-> ps.ResourceGroup,
                 routingMethod |-> ps.RoutingMethod]]

RECURSIVE RecordsOf(_, _)
RecordsOf(domainFilter, pss) ==
    IF pss = <<>> THEN <<>>
    ELSE LET ps == Head(pss)
             rest == RecordsOf(domainFilter, Tail(pss))
         IN  IF ps.Hostname = <<>> \/ ps.FQDN = <<>> THEN rest
             ELSE IF ~matchesDomainFilter(domainFilter, ps.Hostname) THEN rest
             ELSE <<RecordOf(ps)>> \o rest

RECURSIVE SetProfiles(_, _, _)
SetProfiles(m, pss, t) ==
    IF pss = <<>> THEN m
    ELSE SetProfiles(IF Head(pss).Hostname # <<>>
                     THEN SetProfile(m, Head(pss).Hostname, Head(pss), t)
                     ELSE m,
                     Tail(pss), t)

Syncing == [phase |-> "sync", next |-> 1, listed |-> <<>>, profiles |-> <<>>,
            records |-> <<>>, err |-> FALSE]

ListOutcomes == IF faults < MaxFaults THEN {"ok", "transient"} ELSE {"ok"}

\* one round of the loop of SyncProfilesFromAzure: the listing of the next
\* resource group; a failed listing is logged and the group skipped
RecordsList ==
    /\ input # <<>>
    /\ output.phase = "sync"
    /\ output.next <= Len(input.resourceGroups)
    /\ \E out \in ListOutcomes :
          LET rg == input.resourceGroups[output.next]
              found == IF out = "ok" THEN listProfilesInResourceGroup(remote, rg, now)
                       ELSE <<>>
          IN  /\ output' = [output EXCEPT !.next = @ + 1,
                                          !.listed = Append(@, [rg |-> rg, out |-> out]),
                                          !.profiles = @ \o found]
              /\ faults' = IF out = "ok" THEN faults ELSE faults + 1
    /\ UNCHANGED <<remote, mirror, cnames, changes, pc, result, calls, returned, now>>
    /\ UNCHANGED managerVars
    /\ UNCHANGED input

\* a Records that replaces the mirror by the profiles it listed
RecordsReturnReplacingMirror ==
    /\ input # <<>>
    /\ output.phase = "sync"
    /\ output.next > Len(input.resourceGroups)
    /\ mirror' = [mirror EXCEPT !["w1"] = SetProfiles(NoProfiles, output.profiles, now)]
    /\ output' = [output EXCEPT !.phase = "returned",
                                !.records = RecordsOf(input.domainFilter, output.profiles)]
    /\ UNCHANGED <<remote, cnames, changes, pc, result, calls, returned, faults, now>>
    /\ UNCHANGED managerVars
    /\ UNCHANGED input

\* the rest of Records once the sync has returned: mirror the profiles that
\* have a hostname, build the records, return them
RecordsReturn ==
    /\ input # <<>>
    /\ output.phase = "sync"
    /\ output.next > Len(input.resourceGroups)
    /\ mirror' = [mirror EXCEPT !["w1"] = SetProfiles(@, output.profiles, now)]
    /\ output' = [output EXCEPT !.phase = "returned",
                                !.records = RecordsOf(input.domainFilter, output.profiles)]
    /\ UNCHANGED <<remote, cnames, changes, pc, result, calls, returned, faults, now>>
    /\ UNCHANGED managerVars
    /\ UNCHANGED input

\* --- remote profiles and configurations Records is run against -----------------

Rg2 == <<"r", "2">>

OtherRg == <<"o", "t">>

TmA == <<"a">>

TmB == <<"b">>

TmC == <<"c">>

RemoteProfile(name, tags, hasFqdn) ==
    [RoutingMethod |-> DefaultRoutingMethod, DNSTTL |-> DefaultDNSTTL,
     MonitorProtocol |-> DefaultMonitorProtocol, MonitorPort |-> DefaultMonitorPort,
     MonitorPath |-> DefaultMonitorPath, ProfileStatus |-> "Enabled",
     Tags |-> tags, FQDN |-> IF hasFqdn THEN FqdnOf(name) ELSE <<>>,
     Endpoints |-> NoEndpoints]

\* a managed profile with hostname and FQDN; one of somebody else; managed
\* ones without hostname tag, with an empty one, without FQDN; a managed one
\* in a second group whose hostname the narrower filter refuses; and a
\* managed one in a group that is not configured
RemoteCandidates ==
    (<<Rg, SharedTm>> :> RemoteProfile(SharedTm, [managedBy |-> ManagedByValue, hostname |-> VanityDNS], TRUE))
    @@ (<<Rg, TmA>> :> RemoteProfile(TmA, [managedBy |-> "someone-else", hostname |-> EastDNS], TRUE))
    @@ (<<Rg, TmB>> :> RemoteProfile(TmB, [managedBy |-> ManagedByValue], TRUE))
    @@ (<<Rg, TmC>> :> RemoteProfile(TmC, [managedBy |-> ManagedByValue, hostname |-> EastDNS], FALSE))
    @@ (<<Rg2, TmA>> :> RemoteProfile(TmA, [managedBy |-> ManagedByValue, hostname |-> WestDNS], TRUE))
    @@ (<<Rg2, TmB>> :> RemoteProfile(TmB, [managedBy |-> ManagedByValue, hostname |-> <<>>], TRUE))
    @@ (<<Rg2, TmC>> :> RemoteProfile(TmC, [hostname |-> EastDNS], TRUE))
    @@ (<<OtherRg, TmA>> :> RemoteProfile(TmA, [managedBy |-> ManagedByValue, hostname |-> EastDNS], TRUE))

RemotesOfRecords ==
    {[k \in S |-> RemoteCandidates[k]] : S \in SUBSET DOMAIN RemoteCandidates}

TopDomain == <<"x">>

\* RESOURCE_GROUPS and DOMAIN_FILTER as getEnvSlice splits them
RecordsConfigs ==
    [resourceGroups : {<<Rg>>, <<Rg, Rg2>>, <<Rg, Rg>>},
     domainFilter : {<<>>, <<TopDomain>>, <<VanityDNS>>, <<WildcardPrefix \o TopDomain>>}]

\* what an earlier Records left in the mirror: nothing, or the entries of
\* the managed profiles of both groups as they were listed then, when their
\* routing method was Priority
PriorEntry(k) ==
    [profileToState(RemoteCandidates, k, 1)
        EXCEPT !.RoutingMethod = <<"P","r","i","o","r","i","t","y">>]

PriorMirrors ==
    {NoProfiles,
     (VanityDNS :> PriorEntry(<<Rg, SharedTm>>))
        @@ (EastDNS :> PriorEntry(<<Rg, TmC>>))
        @@ (WestDNS :> PriorEntry(<<Rg2, TmA>>))}

InitRecords ==
    /\ remote \in RemotesOfRecords
    /\ changes = [w \in Writers |-> NoChanges]
    /\ mirror \in {[w \in Writers |-> IF w = "w1" THEN m ELSE NoProfiles] : m \in PriorMirrors}
    /\ cnames = [w \in Writers |-> NoProfiles]
    /\ pc = [w \in Writers |-> FirstFrom(changes[w], "create", 1)]
    /\ result = [w \in Writers |-> ResultAt(FirstFrom(changes[w], "create", 1))]
    /\ calls = [w \in Writers |-> <<>>]
    /\ returned = [w \in Writers |-> <<>>]
    /\ faults = 0
    /\ now = 1
    /\ ManagerIdle
    /\ input \in RecordsConfigs
    /\ output = Syncing

NextRecords == RecordsList \/ RecordsReturn

SpecRecords == InitRecords /\ [][NextRecords]_vars

\* the records Records returned for the remote profile of key k
RecordsFor(k) ==
    {i \in DOMAIN output.records :
        /\ output.records[i].Labels.profile = k[2]
        /\ output.records[i].Labels.resourceGroup = k[1]}

\* the remote profile carries this engine's managedBy tag, a non-empty
\* hostname tag that matches the domain filter, and a non-empty FQDN
Publishable(k) ==
    LET tags == remote[k].Tags
    IN  /\ "managedBy" \in DOMAIN tags
        /\ tags["managedBy"] = "external-dns-traffic-manager-webhook"
        /\ "hostname" \in DOMAIN tags
        /\ tags["hostname"] # <<>>
        /\ remote[k].FQDN # <<>>
        /\ matchesDomainFilter(input.domainFilter, tags["hostname"])

InConfiguredGroup(k) == \E i \in DOMAIN input.resourceGroups : input.resourceGroups[i] = k[1]

\* the listings of the resource group of k that succeeded
ListedOk(k) ==
    {i \in DOMAIN output.listed : output.listed[i].rg = k[1] /\ output.listed[i].out = "ok"}

IsCnameOf(rec, k) ==
    /\ rec.RecordType = "CNAME"
    /\ rec.DNSName = remote[k].Tags["hostname"]
    /\ rec.Targets = <<remote[k].FQDN>>

\* C13 as stated: exactly one CNAME record for each publishable remote profile
\* of the configured resource groups, none for any other profile
C13_Original ==
    output.phase = "returned"
    => \A k \in DOMAIN remote :
          Cardinality(RecordsFor(k)) = IF Publishable(k) /\ InConfiguredGroup(k) THEN 1 ELSE 0

\* C13: Records returns, for each remote profile that carries the managedBy
\* tag value of this engine, has a non-empty hostname tag and a non-empty FQDN
\* and whose hostname matches the domain filter, one CNAME record (DNS name =
\* the hostname tag, single target = the FQDN) per successful listing of the
\* profile's resource group: one when the group is configured once and its
\* listing succeeds, none when the listing fails or the group is not
\* configured, two when the group is configured twice.  It returns no record
\* for any other remote profile and no record that is not of a remote
\* profile.
C13_RecordsPerListing ==
    output.phase = "returned"
    => /\ \A k \in DOMAIN remote :
             /\ Cardinality(RecordsFor(k))
                   = IF Publishable(k) THEN Cardinality(ListedOk(k)) ELSE 0
             /\ \A i \in RecordsFor(k) : IsCnameOf(output.records[i], k)
       /\ \A i \in DOMAIN output.records : \E k \in DOMAIN remote : i \in RecordsFor(k)
       /\ Len(output.listed) = Len(input.resourceGroups)
       /\ \A i \in DOMAIN output.listed : output.listed[i].rg = input.resourceGroups[i]

\* C13 witness: Records has returned exactly one record, that of the one
\* publishable profile, next to profiles that are unmanaged, lack the
\* hostname or the FQDN, or are refused by the domain filter
C13_Witness ==
    /\ output.phase = "returned"
    /\ DOMAIN remote = DOMAIN RemoteCandidates
    /\ input.domainFilter = <<VanityDNS>>
    /\ input.resourceGroups = <<Rg, Rg2>>
    /\ \A i \in DOMAIN output.listed : output.listed[i].out = "ok"
    /\ Len(output.records) = 1
    /\ IsCnameOf(output.records[1], <<Rg, SharedTm>>)

\* ------------------------------------------------------------------------
\* Properties of ApplyChanges, continued
\* ------------------------------------------------------------------------

\* old and new configuration are both enabled, the new one is valid, and the
\* endpoint priority is the only field in which they differ
OnlyPriorityDiffers(oldEndpoint, newEndpoint) ==
    LET o == ParseConfig(oldEndpoint.Labels)
        n == ParseConfig(newEndpoint.Labels)
    IN  /\ o.err = "" /\ n.err = ""
        /\ o.config.Enabled /\ n.config.Enabled
        /\ ValidateConfig(n.config) = ""
        /\ o.config.Priority # n.config.Priority
        /\ [o.config EXCEPT !.Priority = n.config.Priority] = n.config
        /\ oldEndpoint.Targets = newEndpoint.Targets

\* C14: an Update in which the endpoint priority is the only field that
\* differs between the old and the new configuration issues a remote endpoint
\* update, and when that update succeeds the remote endpoint carries the new
\* priority.
C14_PriorityUpdateIssued ==
    \A w \in Writers : \A i \in 1..Len(changes[w].UpdateOld) :
        (/\ i \in DOMAIN changes[w].UpdateNew
         /\ HasReturned(w, "update", i)
         /\ OnlyPriorityDiffers(changes[w].UpdateOld[i], changes[w].UpdateNew[i]))
        => LET e == changes[w].UpdateNew[i]
               c == updateConfig(e)
               ws == EndpointWrites(w, i)
           IN  /\ Len(ws) >= 1
               /\ (\A k \in DOMAIN ws : ws[k].out = "ok")
                  => /\ RemoteHasEndpoint(remote, ProfileKey(c), c.EndpointName)
                     /\ remote[ProfileKey(c)].Endpoints[c.EndpointName].Priority = c.Priority

\* every create item and every update item of the batch of w was handled
\* before position k of the handler returns of w
CreatesAndUpdatesReturnedBefore(w, k) ==
    /\ \A i \in 1..Len(changes[w].Create) :
          \E j \in 1..(k - 1) : returned[w][j].phase = "create" /\ returned[w][j].idx = i
    /\ \A i \in 1..Len(changes[w].UpdateOld) :
          \E j \in 1..(k - 1) : returned[w][j].phase = "update" /\ returned[w][j].idx = i

\* the batch that creates endpoint east in the shared profile and deletes
\* endpoint west of that profile
CreateEastDeleteWest == Batch(<<EastShared>>, <<>>, <<>>, <<WestShared>>)

NumericAnnotations ==
    {AnnotationWeight, AnnotationPriority, AnnotationDNSTTL, AnnotationMonitorPort}

TextAnnotations ==
    {AnnotationProfileName, AnnotationHostname, AnnotationRoutingMethod,
     AnnotationEndpointName, AnnotationEndpointLocation, AnnotationEndpointStatus,
     AnnotationMonitorProtocol, AnnotationMonitorPath}

StrPriority == <<"P","r","i","o","r","i","t","y">>

StrHTTP == <<"H","T","T","P">>

StrFalse == <<"f","a","l","s","e">>

\* the values an annotation is given: none, well-formed ones, malformed ones
ValuesOf(key) ==
    IF key \in NumericAnnotations
    THEN {<<>>, <<"5","0">>, <<"+","7">>, <<"-","1">>, <<"a","b","c">>, <<"1",".","5">>, <<"-">>}
    ELSE IF key = AnnotationHealthChecksEnabled
    THEN {<<>>, StrTrue, StrFalse, <<"T">>, <<"0">>, <<"y","e","s">>, <<"t","R","U","E">>}
    ELSE IF key = AnnotationEnabled
    THEN {<<>>, StrTrue, <<"T","R","U","E">>, <<"T","r","u","e">>, StrFalse, <<"1">>, <<"y","e","s">>}
    ELSE IF key = AnnotationResourceGroup THEN {<<>>, Rg}
    ELSE {<<>>, StrPriority, StrHTTP, StrDisabled, VanityDNS}

OptionalAnnotations == NumericAnnotations \cup TextAnnotations \cup {AnnotationHealthChecksEnabled}

\* label sets: the enabled annotation and the resource group, each absent or
\* with one of its values, and up to MaxExtra of the other annotations
MaxExtra == 1

Opt(key) == {NoLabels} \cup {(key :> v) : v \in ValuesOf(key)}

RECURSIVE Extras(_)
Extras(n) ==
    IF n = 0 THEN {NoLabels}
    ELSE Extras(n - 1)
         \cup {x @@ (k :> v) : x \in Extras(n - 1),
                               <<k, v>> \in UNION {{<<kk, vv>> : vv \in ValuesOf(kk)} :
                                                     kk \in OptionalAnnotations}}

LabelSets ==
    {e @@ r @@ x : e \in Opt(AnnotationEnabled), r \in Opt(AnnotationResourceGroup),
                   x \in Extras(MaxExtra)}

\* configurations: a valid enabled one with up to two fields replaced
ValidBase ==
    [DefaultsConfig EXCEPT !.Enabled = TRUE, !.ResourceGroup = Rg, !.EndpointLocation = Region,
                           !.ProfileName = SharedTm, !.EndpointName = East]

StrAzureEndpoints == <<"A","z","u","r","e","E","n","d","p","o","i","n","t","s">>

FieldValues(f) ==
    CASE f = "Enabled" -> {TRUE, FALSE}
      [] f = "ResourceGroup" -> {<<>>, Rg}
      [] f \in {"Weight", "Priority"} -> {0, 1, 1000, 1001}
      [] f = "RoutingMethod" -> validRoutingMethods \cup {<<"w","e","i","g","h","t","e","d">>, <<>>}
      [] f = "MonitorProtocol" -> validProtocols \cup {<<"U","D","P">>, <<"h","t","t","p">>}
      [] f = "EndpointStatus" -> validStatuses \cup {<<"e","n","a","b","l","e","d">>, <<>>}
      [] f = "DNSTTL" -> {0, 29, 30, 31}
      [] f = "MonitorPort" -> {0, 1, 65535, 65536}
      [] f = "EndpointType" -> {DefaultEndpointType, StrAzureEndpoints}
      [] f = "EndpointLocation" -> {<<>>, Region}

ValidatedFields ==
    {"Enabled", "ResourceGroup", "Weight", "Priority", "RoutingMethod", "MonitorProtocol",
     "EndpointStatus", "DNSTTL", "MonitorPort", "EndpointType", "EndpointLocation"}

Configs ==
    UNION {{[[ValidBase EXCEPT ![f] = v] EXCEPT ![g] = u] :
               v \in FieldValues(f), u \in FieldValues(g)} :
           f \in ValidatedFields, g \in ValidatedFields}

\* names: every string of at most MaxNameLen characters over a lower-case
\* letter, an upper-case letter, a digit, the hyphen, the dot, the underscore
\* and the at sign
MaxNameLen == 3

NameAlphabet == {"a", "Z", "5", "-", ".", "_", "@"}

Names == UNION {[1..n -> NameAlphabet] : n \in 0..MaxNameLen}

NotCalled == [done |-> FALSE]

ApplyParseConfig ==
    /\ input.fn = "ParseConfig"
    /\ ~output.done
    /\ output' = [done |-> TRUE, err |-> ParseConfig(input.labels).err,
                  config |-> ParseConfig(input.labels).config]
    /\ UNCHANGED <<input, now>>
    /\ UNCHANGED providerVars
    /\ UNCHANGED managerVars

ApplyValidateConfig ==
    /\ input.fn = "ValidateConfig"
    /\ ~output.done
    /\ output' = [done |-> TRUE, err |-> ValidateConfig(input.config)]
    /\ UNCHANGED <<input, now>>
    /\ UNCHANGED providerVars
    /\ UNCHANGED managerVars

ApplySanitizeName ==
    /\ input.fn = "sanitizeName"
    /\ ~output.done
    /\ output' = [done |-> TRUE, name |-> sanitizeName(input.name)]
    /\ UNCHANGED <<input, now>>
    /\ UNCHANGED providerVars
    /\ UNCHANGED managerVars

\* hostnames and filters: every string of at most MaxHostLen characters over
\* a letter, the dot and the asterisk; "a" stands for a domain, "a.a" for a
\* subdomain of it, "aa" for another domain that ends in the same letters
MaxHostLen == 3

HostAlphabet == {"a", ".", "*"}

Hosts == UNION {[1..n -> HostAlphabet] : n \in 0..MaxHostLen}

\* DOMAIN_FILTER: no filter, one, or two
FilterLists ==
    {<<>>} \cup {<<f>> : f \in {<<"a">>, <<"*", ".", "a">>, <<>>}}
           \cup {<<<<"a", "a">>, f>> : f \in {<<"a">>, <<"*", ".", "a">>}}

ApplyMatchesDomain ==
    /\ input.fn = "matchesDomain"
    /\ ~output.done
    /\ output' = [done |-> TRUE, matches |-> matchesDomain(input.hostname, input.filter)]
    /\ UNCHANGED <<input, now>>
    /\ UNCHANGED providerVars
    /\ UNCHANGED managerVars

ApplyMatchesDomainFilter ==
    /\ input.fn = "matchesDomainFilter"
    /\ ~output.done
    /\ output' = [done |-> TRUE,
                  matches |-> matchesDomainFilter(input.domainFilter, input.hostname)]
    /\ UNCHANGED <<input, now>>
    /\ UNCHANGED providerVars
    /\ UNCHANGED managerVars

InitPure ==
    /\ ProviderIdle
    /\ ManagerIdle
    /\ input \in {[fn |-> "ParseConfig", labels |-> l] : l \in LabelSets}
                 \cup {[fn |-> "ValidateConfig", config |-> c] : c \in Configs}
                 \cup {[fn |-> "sanitizeName", name |-> n] : n \in Names}
                 \cup {[fn |-> "matchesDomain", hostname |-> h, filter |-> f] :
                          h \in Hosts, f \in Hosts}
                 \cup {[fn |-> "matchesDomainFilter", hostname |-> h, domainFilter |-> fs] :
                          h \in Hosts, fs \in FilterLists}
    /\ output = NotCalled

NextPure ==
    \/ ApplyParseConfig
    \/ ApplyValidateConfig
    \/ ApplySanitizeName
    \/ ApplyMatchesDomain
    \/ ApplyMatchesDomainFilter

SpecPure == InitPure /\ [][NextPure]_vars

\* ------------------------------------------------------------------------
\* Properties of the pure functions
\* ------------------------------------------------------------------------

Parsed == input.fn = "ParseConfig" /\ output.done

\* the enabled annotation is there and reads "true" in any letter case
SaysEnabled(labels) ==
    /\ AnnotationEnabled \in DOMAIN labels
    /\ Len(labels[AnnotationEnabled]) = 4
    /\ \A i \in 1..4 : labels[AnnotationEnabled][i] \in {StrTrue[i], <<"T","R","U","E">>[i]}

\* a decimal integer: an optional sign and at least one digit
IsInteger(s) ==
    \/ Len(s) >= 1 /\ \A i \in DOMAIN s : s[i] \in Range(DigitSeq)
    \/ Len(s) >= 2 /\ s[1] \in {"+", "-"} /\ \A i \in 2..Len(s) : s[i] \in Range(DigitSeq)

\* what strconv.ParseBool accepts
BoolLiterals ==
    {<<"1">>, <<"t">>, <<"T">>, <<"T","R","U","E">>, <<"t","r","u","e">>, <<"T","r","u","e">>,
     <<"0">>, <<"f">>, <<"F">>, <<"F","A","L","S","E">>, <<"f","a","l","s","e">>,
     <<"F","a","l","s","e">>}

GivenNonEmpty(labels, key) == key \in DOMAIN labels /\ labels[key] # <<>>

Validated == input.fn = "ValidateConfig" /\ output.done

StatedDefaults ==
    [RoutingMethod |-> <<"W","e","i","g","h","t","e","d">>, Weight |-> 100, Priority |-> 1,
     DNSTTL |-> 30, MonitorProtocol |-> <<"H","T","T","P","S">>, MonitorPort |-> 443,
     MonitorPath |-> <<"/">>, EndpointStatus |-> <<"E","n","a","b","l","e","d">>,
     EndpointType |-> <<"E","x","t","e","r","n","a","l","E","n","d","p","o","i","n","t","s">>,
     ProfileName |-> <<>>, Hostname |-> <<>>, EndpointName |-> <<>>, EndpointLocation |-> <<>>]

\* the annotation that sets a field; the endpoint type has none
AnnotationOf ==
    [RoutingMethod |-> AnnotationRoutingMethod, Weight |-> AnnotationWeight,
     Priority |-> AnnotationPriority, DNSTTL |-> AnnotationDNSTTL,
     MonitorProtocol |-> AnnotationMonitorProtocol, MonitorPort |-> AnnotationMonitorPort,
     MonitorPath |-> AnnotationMonitorPath, EndpointStatus |-> AnnotationEndpointStatus,
     EndpointType |-> "", ProfileName |-> AnnotationProfileName,
     Hostname |-> AnnotationHostname, EndpointName |-> AnnotationEndpointName,
     EndpointLocation |-> AnnotationEndpointLocation]

ParsedEnabled == Parsed /\ output.err = "" /\ output.config.Enabled

Sanitized == input.fn = "sanitizeName" /\ output.done

Alphanumeric == Range(LowerSeq) \cup Range(UpperSeq) \cup Range(DigitSeq)

\* C20: sanitizeName replaces every character outside [A-Za-z0-9] by '-' and
\* keeps every other character, so its result has the length of the input
\* and only characters of [A-Za-z0-9-], and sanitizing the result again
\* gives the result.
C20_SanitizeIdempotent ==
    Sanitized
    => /\ Len(output.name) = Len(input.name)
       /\ \A i \in DOMAIN input.name :
             output.name[i] = IF input.name[i] \in Alphanumeric THEN input.name[i] ELSE "-"
       /\ Range(output.name) \subseteq Alphanumeric \cup {"-"}
       /\ sanitizeName(output.name) = output.name
       /\ sanitizeName(sanitizeName(input.name)) = sanitizeName(input.name)

\* C20 witness: a name with a dot, an underscore and a letter has been
\* sanitized into one that differs from it
C20_Witness ==
    /\ Sanitized
    /\ input.name = <<"a", ".", "_">>
    /\ output.name = <<"a", "-", "-">>

\* hostname ends with "." followed by s
EndsWithDot(hostname, s) ==
    \E i \in 1..Len(hostname) :
        /\ hostname[i] = "."
        /\ Len(hostname) - i = Len(s)
        /\ \A j \in 1..Len(s) : hostname[i + j] = s[j]

\* filter has the form "*." followed by s
IsWildcardOf(filter, s) ==
    /\ Len(filter) = Len(s) + 2
    /\ filter[1] = "*" /\ filter[2] = "."
    /\ \A j \in 1..Len(s) : filter[j + 2] = s[j]

\* C21: matchesDomain(hostname, filter) is true exactly when hostname equals
\* filter, or hostname ends with "." + filter, or filter is "*." + s and
\* hostname equals s or ends with "." + s; so a domain is matched by itself
\* and by its wildcard, a subdomain by both, and a name that merely ends in
\* the letters of the domain by neither; matchesDomainFilter is true exactly
\* when the list is empty or one of its filters matches.
C21_MatchesDomain ==
    /\ (input.fn = "matchesDomain" /\ output.done)
       => LET h == input.hostname
              f == input.filter
          IN  /\ output.matches
                   <=> \/ h = f
                       \/ EndsWithDot(h, f)
                       \/ \E s \in Hosts :
                             IsWildcardOf(f, s) /\ (h = s \/ EndsWithDot(h, s))
              /\ (f = <<"a">> /\ h \in {<<"a">>, <<"a", ".", "a">>}) => output.matches
              /\ (f = <<"a">> /\ h = <<"a", "a">>) => ~output.matches
              /\ (f = <<"*", ".", "a">> /\ h \in {<<"a">>, <<"a", ".", "a">>, <<".", "a">>})
                 => output.matches
    /\ (input.fn = "matchesDomainFilter" /\ output.done)
       => /\ output.matches
               <=> \/ input.domainFilter = <<>>
                   \/ \E i \in DOMAIN input.domainFilter :
                         matchesDomain(input.hostname, input.domainFilter[i])
          /\ input.domainFilter = <<>> => output.matches

\* C21 witness: the filter "a" has refused the hostname "aa", which ends in
\* the filter without a dot before it
C21_Witness ==
    /\ input.fn = "matchesDomain"
    /\ output.done
    /\ input.filter = <<"a">>
    /\ input.hostname = <<"a", "a">>
    /\ ~output.matches


\* ------------------------------------------------------------------------
\* Properties of createEndpoint, updateEndpoint and deleteEndpoint, continued
\* ------------------------------------------------------------------------

\* C22: in every interleaving of the remote calls of two writers, a remote
\* profile that disappears holds no endpoint at the moment its deletion is
\* applied; in particular none that the other writer's Create added after
\* the deleting writer's re-fetch.
C22_DeletedProfileIsEmpty ==
    [][\A key \in DOMAIN remote :
          key \notin DOMAIN remote' => DOMAIN remote[key].Endpoints = {}]_vars


\* the last remote call w had issued before the step
PrevCall(w) == calls[w][Len(calls[w])]

\* w is in a Create whose last remote call was the fallback read
AfterFallbackRead(w) ==
    /\ pc[w].op = "create"
    /\ Len(calls[w]) >= 2
    /\ PrevCall(w).op = "GetProfile"
    /\ PrevCall(w).phase = "create" /\ PrevCall(w).idx = pc[w].idx

\* C23: a failed remote profile create (an "already exists" included) is
\* followed by a read of the same profile and is not returned; when the read
\* succeeds Create neither returns nor fails at that point and its next
\* remote call is an endpoint upsert under that profile, with one of the
\* names Create gives its endpoints; when the read fails too, Create returns
\* an error, issues no further remote call, and has written nothing to the
\* State Mirror.
C23_ConflictFallsBack ==
    [][\A w \in Writers :
          /\ (AtStep(w, "create", "profile") /\ calls'[w] # calls[w]
              /\ LastCall(w).out # "ok")
             => /\ returned' = returned
                /\ result'[w].status = "running"
                /\ pc'[w] = [pc[w] EXCEPT !.step = "getprofile"]
                /\ mirror' = mirror
          /\ (AtStep(w, "create", "getprofile") /\ calls'[w] # calls[w])
             => /\ PrevCall(w).op = "CreateProfile" /\ PrevCall(w).out # "ok"
                /\ LastCall(w).op = "GetProfile" /\ LastCall(w).key = PrevCall(w).key
                /\ mirror' = mirror /\ remote' = remote
                /\ CallsOf(w, "create", pc[w].idx, {"CreateEndpoint"}) = <<>>
                /\ IF LastCall(w).out = "ok"
                   THEN /\ returned' = returned
                        /\ result'[w].status = "running"
                        /\ pc'[w].op = "create" /\ pc'[w].idx = pc[w].idx
                        /\ pc'[w].step = "endpoint"
                   ELSE /\ returned'[w] = Append(returned[w], Returned(w, TRUE))
                        /\ result'[w].status = "error"
                        /\ pc'[w] = Done
          /\ (AfterFallbackRead(w) /\ calls'[w] # calls[w])
             => /\ PrevCall(w).out = "ok"
                /\ LastCall(w).op = "CreateEndpoint"
                /\ LastCall(w).phase = "create" /\ LastCall(w).idx = pc[w].idx
                /\ LastCall(w).key = PrevCall(w).key
                /\ LastCall(w).key \in DOMAIN remote
                /\ LastCall(w).endpoint \in CreateNames(Item(w))
          /\ (pc[w].op = "create" /\ pc[w].step \in {"begin", "profile", "getprofile"})
             => mirror'[w] = mirror[w]]_vars

\* C23 witness: a Create whose profile create answered "already exists" read
\* the profile, upserted its endpoint under it and returned success
C23_Witness ==
    \E w \in Writers : \E k \in DOMAIN calls[w] :
        /\ k + 2 \in DOMAIN calls[w]
        /\ calls[w][k].op = "CreateProfile" /\ calls[w][k].out = "conflict"
        /\ calls[w][k + 1].op = "GetProfile" /\ calls[w][k + 1].out = "ok"
        /\ calls[w][k + 2].op = "CreateEndpoint" /\ calls[w][k + 2].out = "ok"
        /\ \E r \in DOMAIN returned[w] :
              /\ returned[w][r].phase = "create" /\ returned[w][r].idx = calls[w][k].idx
              /\ ~returned[w][r].failed


\* createEndpoint gets past the record type filter, the parse, the enabled
\* check and the validation of item e
ActsOnCreate(e) ==
    LET p == ParseConfig(annotationMap(e.Labels, e.ProviderSpecific))
    IN  /\ e.RecordType # "TXT"
        /\ p.err = ""
        /\ p.config.Enabled
        /\ ValidateConfig(p.config) = ""

\* the handler of item i of the given list of w returned without an error
ReturnedOk(w, phase, i) ==
    \E r \in DOMAIN returned[w] :
        /\ returned[w][r].phase = phase /\ returned[w][r].idx = i
        /\ ~returned[w][r].failed

EndpointUpserts(w, i) == CallsOf(w, "create", i, {"CreateEndpoint"})

PairwiseDistinctNames(ups) ==
    \A a, b \in DOMAIN ups : a # b => ups[a].endpoint # ups[b].endpoint

NamesOf(cs) == {cs[k].endpoint : k \in DOMAIN cs}

\* C25: when a batch creates a logical endpoint and deletes the same one and
\* both handlers return success, the remote endpoint names for which Delete
\* issued a deletion are the names Create upserted, and once every deletion
\* succeeded none of the endpoints Create wrote is left in the remote profile.
C25_DeleteNamesAreCreateNames ==
    \A w \in Writers :
        LET e == changes[w].Create[1]
            ups == EndpointUpserts(w, 1)
            dels == CallsOf(w, "delete", 1, {"DeleteEndpoint"})
            key == ProfileKey(createConfig(e))
        IN  (/\ CreateThenDelete(w)
             /\ ActsOnCreate(e)
             /\ ReturnedOk(w, "create", 1)
             /\ ReturnedOk(w, "delete", 1))
            => /\ NamesOf(dels) = NamesOf(ups)
               /\ (\A k \in DOMAIN dels : dels[k].out = "ok")
                  => \A n \in NamesOf(ups) : ~RemoteHasEndpoint(remote, key, n)


\* the items of the given list of w; an update is the pair of the two lists
ListItem(w, phase, i) ==
    IF phase = "create" THEN changes[w].Create[i]
    ELSE IF phase = "update" THEN changes[w].UpdateNew[i]
    ELSE changes[w].Delete[i]

ListLen(w, phase) ==
    IF phase = "create" THEN Len(changes[w].Create)
    ELSE IF phase = "update" THEN Len(changes[w].UpdateNew)
    ELSE Len(changes[w].Delete)

AllCallsOf(w, phase, i) ==
    SelectSeq(calls[w], LAMBDA c : c.phase = phase /\ c.idx = i)

\* C26: a change item of record type TXT, in the create, update or delete
\* list and whatever labels it carries, causes no remote call (none whose
\* result a State Mirror write could record) and its handler returns no error.
C26_TxtItemsSkipped ==
    \A w \in Writers : \A phase \in {"create", "update", "delete"} :
        \A i \in 1..ListLen(w, phase) :
            ListItem(w, phase, i).RecordType = "TXT"
            => /\ AllCallsOf(w, phase, i) = <<>>
               /\ \A r \in DOMAIN returned[w] :
                     (returned[w][r].phase = phase /\ returned[w][r].idx = i)
                     => ~returned[w][r].failed


\* the configured hostname of item e, or its DNS name when none is configured
VanityHostname(e) ==
    LET hostname == ParseConfig(annotationMap(e.Labels, e.ProviderSpecific)).config.Hostname
    IN  IF hostname # <<>> THEN hostname ELSE e.DNSName

\* C27: every remote profile write of Create and of Update that succeeds
\* leaves the profile with the managedBy tag of the engine and with a hostname
\* tag equal to the vanity hostname of the item being processed.
C27_ProfileWritesCarryVanityHostname ==
    [][\A w \in Writers :
          (/\ calls'[w] # calls[w]
           /\ LastCall(w).op \in {"CreateProfile", "UpdateProfile"}
           /\ LastCall(w).out = "ok")
          => LET tags == remote'[LastCall(w).key].Tags
             IN  /\ tags.managedBy = ManagedByValue
                 /\ tags.hostname = VanityHostname(Item(w))]_vars


\* the vanity hostnames of the items of the batch of w
BatchVanityHostnames(w) ==
    {VanityHostname(ListItem(w, phase, i)) :
        <<phase, i>> \in {<<ph, n>> \in {"create", "update", "delete"} \X (1..2) :
                             n <= ListLen(w, ph)}}

\* C28: every entry Create, Update and Delete leave in the State Mirror is
\* keyed by the vanity hostname of an item of the batch (the configured
\* hostname, or the DNS name when none is configured), and the stored
\* ProfileState has its Hostname field equal to its key.
C28_MirrorKeyedByVanityHostname ==
    \A w \in Writers : \A h \in DOMAIN mirror[w] :
        /\ mirror[w][h].Hostname = h
        /\ h \in BatchVanityHostnames(w)


\* updateEndpoint gets past the parse of the new labels, the enabled check
\* and the validation
ActsOnUpdate(newEndpoint) ==
    LET p == ParseConfig(newEndpoint.Labels)
    IN  p.err = "" /\ p.config.Enabled /\ ValidateConfig(p.config) = ""

\* one of the six profile settings differs between the two configurations
ProfileSettingsDiffer(o, n) ==
    \E f \in {"RoutingMethod", "DNSTTL", "MonitorProtocol", "MonitorPort", "MonitorPath",
              "HealthChecksEnabled"} : o[f] # n[f]

\* C29: an Update whose new configuration is enabled and valid and whose old
\* labels parse issues a remote profile update (the read of the profile and,
\* when that succeeds, one write) exactly when routing method, DNS TTL,
\* monitor protocol, monitor port, monitor path or the health-checks flag
\* differs between the old and the new configuration; when the two
\* configurations are identical its only remote call is the re-fetch of the
\* profile; when the old labels do not parse the profile update is issued.
C29_ProfileUpdateIffSettingsDiffer ==
    \A w \in Writers : \A i \in 1..Len(changes[w].UpdateOld) :
        (/\ i \in DOMAIN changes[w].UpdateNew
         /\ HasReturned(w, "update", i)
         /\ ActsOnUpdate(changes[w].UpdateNew[i]))
        => LET o == ParseConfig(changes[w].UpdateOld[i].Labels)
               n == ParseConfig(changes[w].UpdateNew[i].Labels)
               all == AllCallsOf(w, "update", i)
               gets == CallsOf(w, "update", i, {"GetProfile"})
               puts == CallsOf(w, "update", i, {"UpdateProfile"})
           IN  /\ o.err = ""
                  => /\ Len(gets) = 1 <=> ProfileSettingsDiffer(o.config, n.config)
                     /\ o.config = n.config
                        => Len(all) = 1 /\ all[1].op = "GetProfileState"
               /\ o.err # "" => Len(gets) = 1
               /\ Len(gets) <= 1
               /\ Len(puts) = IF Len(gets) = 1 /\ gets[1].out = "ok" THEN 1 ELSE 0
               /\ Len(gets) = 1 => all[1] = gets[1]
               /\ Len(puts) = 1 => all[2] = puts[1]

\* C29 witness: an Update whose configurations differ in the routing method
\* only has returned after one profile update, and nothing but the re-fetch
\* followed it
C29_Witness ==
    \E w \in Writers :
        /\ changes[w].UpdateOld = <<EastShared>>
        /\ changes[w].UpdateNew = <<EastPriority>>
        /\ ReturnedOk(w, "update", 1)
        /\ Len(AllCallsOf(w, "update", 1)) = 3
        /\ AllCallsOf(w, "update", 1)[2].op = "UpdateProfile"
        /\ AllCallsOf(w, "update", 1)[2].out = "ok"


\* the positions, among the remote calls of Create item i of w, of the
\* profile and endpoint writes that succeeded and of the calls that failed
SucceededWrites(cs) ==
    {k \in DOMAIN cs : cs[k].op \in {"CreateProfile", "CreateEndpoint"} /\ cs[k].out = "ok"}

FailedSteps(cs) ==
    {k \in DOMAIN cs : cs[k].op \in {"CreateProfile", "GetProfile", "CreateEndpoint"}
                       /\ cs[k].out # "ok"}

FailedAfterWrite(cs) ==
    \E k \in FailedSteps(cs) : \E j \in SucceededWrites(cs) : j < k

\* C30: when a remote call of Create fails (a cancellation included) after an
\* earlier remote write of the same Create succeeded, Create has returned the
\* error and ApplyChanges with it, the failed call is the last remote call of
\* the writer, so no delete or revert follows, and the profile and every
\* endpoint the Create wrote are still in the remote, the endpoints with the
\* target they were written with; a Create issues no deletion at all.
C30_NoRollback ==
    \A w \in Writers : \A i \in DOMAIN changes[w].Create :
        LET e == changes[w].Create[i]
            cs == AllCallsOf(w, "create", i)
        IN  /\ \A k \in DOMAIN cs :
                  cs[k].op \notin {"DeleteEndpoint", "DeleteProfile", "DeleteCNAME", "UpdateProfile",
                                   "UpdateEndpoint"}
            /\ FailedAfterWrite(cs)
               => /\ \E r \in DOMAIN returned[w] :
                        /\ returned[w][r].phase = "create" /\ returned[w][r].idx = i
                        /\ returned[w][r].failed
                  /\ result[w].status = "error"
                  /\ pc[w] = Done
                  /\ calls[w][Len(calls[w])] = cs[Len(cs)]
                  /\ cs[Len(cs)].out # "ok"
                  /\ \A j \in SucceededWrites(cs) :
                        /\ RemoteHas(remote, cs[j].key)
                        /\ cs[j].op = "CreateEndpoint"
                           => /\ RemoteHasEndpoint(remote, cs[j].key, cs[j].endpoint)
                              /\ remote[cs[j].key].Endpoints[cs[j].endpoint].Target
                                    \in {createTargets(e)[n] : n \in DOMAIN createTargets(e)}

\* C30 witness: the second endpoint upsert of a Create failed after the
\* profile and the first endpoint were written, and both are in the remote
C30_Witness ==
    \E w \in Writers :
        LET cs == AllCallsOf(w, "create", 1)
        IN  /\ Len(cs) = 3
            /\ cs[1].op = "CreateProfile" /\ cs[1].out = "ok"
            /\ cs[2].op = "CreateEndpoint" /\ cs[2].out = "ok"
            /\ cs[3].op = "CreateEndpoint" /\ cs[3].out # "ok"
            /\ result[w].status = "error"
            /\ RemoteHasEndpoint(remote, cs[2].key, cs[2].endpoint)


\* ------------------------------------------------------------------------
\* Properties of the State Mirror, continued
\* ------------------------------------------------------------------------

\* GetProfile(h) and GetEndpoint(h, .) would find the entry of h after the step
VisibleAfter(h) ==
    h \in DOMAIN profiles' /\ ~IsExpired(heap'[profiles'[h]], CacheTTL, now')

\* C31: an entry of the State Mirror that has expired becomes visible to
\* GetProfile and GetEndpoint again only in the step of a SetProfile for its
\* hostname; no SetEndpoint, DeleteEndpoint, read or caller step makes it
\* visible again.
C31_ExpiredStaysAbsent ==
    [][\A h \in DOMAIN profiles :
          (IsExpired(Stored(h), CacheTTL, now) /\ VisibleAfter(h))
          => \E g \in Goroutines : Returns(g, "SetProfile") /\ inCall[g].hostname = h]_vars


\* the entries of the hostnames other than h are the same objects with the
\* same values after the step
OthersUnchanged(h) ==
    \A k \in (DOMAIN profiles) \ {h} :
        /\ k \in DOMAIN profiles'
        /\ profiles'[k] = profiles[k]
        /\ ProfileValue(heap', profiles'[k]) = ProfileValue(heap, profiles[k])

\* C32: DeleteProfile(h) leaves no entry for h, so that GetProfile(h) reports
\* it absent, and the number of entries is one less when h was stored and the
\* same otherwise; Clear leaves no entry; SetEndpoint and DeleteEndpoint for a
\* hostname without an entry change neither the map nor a stored value; and
\* SetProfile, DeleteProfile, SetEndpoint and DeleteEndpoint for h leave the
\* entry of every other hostname as it was and add no entry but that of a
\* SetProfile.
C32_FrameOfMirrorWrites ==
    [][\A g \in Goroutines :
          LET h == inCall[g].hostname
          IN  /\ Returns(g, "DeleteProfile")
                 => /\ h \notin DOMAIN profiles'
                    /\ ~VisibleAfter(h)
                    /\ Cardinality(DOMAIN profiles')
                          = Cardinality(DOMAIN profiles) - (IF h \in DOMAIN profiles THEN 1 ELSE 0)
                    /\ DOMAIN profiles' = (DOMAIN profiles) \ {h}
              /\ Returns(g, "Clear") => DOMAIN profiles' = {}
              /\ ((Returns(g, "SetEndpoint") \/ Returns(g, "DeleteEndpoint"))
                  /\ h \notin DOMAIN profiles)
                 => /\ profiles' = profiles
                    /\ heap' = heap
              /\ (Returns(g, "SetEndpoint") \/ Returns(g, "DeleteEndpoint"))
                 => DOMAIN profiles' = DOMAIN profiles
              /\ Returns(g, "SetProfile")
                 => DOMAIN profiles' = (DOMAIN profiles) \cup {h}
              /\ (\E op \in {"SetProfile", "DeleteProfile", "SetEndpoint", "DeleteEndpoint"} :
                     Returns(g, op))
                 => OthersUnchanged(h)]_vars

\* C32 witness: of two stored entries DeleteProfile has removed the one a
\* SetProfile had stored, and the other is still there
C32_Witness ==
    \E g, k \in Goroutines :
        /\ ret[g].op = "DeleteProfile"
        /\ ret[k].op = "SetProfile" /\ ret[k].hostname = ret[g].hostname
        /\ ret[g].hostname \notin DOMAIN profiles
        /\ Cardinality(DOMAIN profiles) = 1


\* ------------------------------------------------------------------------
\* Properties of ApplyChanges: the three handlers against each other
\* ------------------------------------------------------------------------

\* C33: an item that Create treats as enabled with a valid configuration (its
\* labels overridden by its provider-specific properties) is treated as
\* enabled by Update and by Delete too: the handler does not skip it but
\* issues at least the re-fetch of the profile, and addresses the resource
\* group of that configuration.
C33_SameAnnotationSet ==
    \A w \in Writers : \A phase \in {"update", "delete"} : \A i \in 1..ListLen(w, phase) :
        LET e == ListItem(w, phase, i)
            cs == AllCallsOf(w, phase, i)
        IN  (ReturnedOk(w, phase, i) /\ ActsOnCreate(e))
            => /\ cs # <<>>
               /\ \A k \in DOMAIN cs : cs[k].key[1] = createConfig(e).ResourceGroup


\* C34: every remote call Update and Delete issue for an item addresses the
\* profile name Create resolves for the same item: the configured name or,
\* without one, the name generated from the vanity hostname.
C34_SameProfileName ==
    \A w \in Writers : \A phase \in {"update", "delete"} : \A i \in 1..ListLen(w, phase) :
        LET e == ListItem(w, phase, i)
            cs == AllCallsOf(w, phase, i)
        IN  \A k \in DOMAIN cs :
               cs[k].key[2] = createConfig(e).ProfileName


\* ------------------------------------------------------------------------
\* Two runs of the same batch side by side: writer w1 works in resource
\* group Rg, writer w2 applies the same batch in resource group Rg2, which
\* holds the same profiles; the two runs share nothing in the remote, and
\* each starts from a State Mirror of its own
\* ------------------------------------------------------------------------

InGroup(e, rg) == [e EXCEPT !.Labels = With(e.Labels, AnnotationResourceGroup, rg)]

BatchInGroup(b, rg) ==
    [list \in DOMAIN b |-> [i \in DOMAIN b[list] |-> InGroup(b[list][i], rg)]]

\* a create, an update of profile and endpoint settings and a delete of the
\* shared endpoint; a delete alone; an identical update alone
TwinBatches ==
    {Batch(<<EastShared>>, <<EastShared>>, <<EastWeight50Priority>>, <<EastShared>>),
     Batch(<<>>, <<>>, <<>>, <<EastShared>>),
     Batch(<<>>, <<EastShared>>, <<EastShared>>, <<>>)}

\* both resource groups empty, or both holding the shared profile with the
\* west endpoint
TwinRemotes ==
    {NoRemote,
     RemoteAfterCreate(RemoteAfterCreate(NoRemote, WestShared), InGroup(WestShared, Rg2))}

\* the shared profile as a re-fetch stores it, cached at time t
MirrorEntry(t) ==
    [profileToState(RemoteAfterCreate(NoRemote, WestShared),
                    ProfileKey(createConfig(WestShared)), t)
        EXCEPT !.Hostname = VanityDNS]

\* mirror contents: empty, fresh, expired (never stamped), and stale (an
\* entry without endpoints under the vanity hostname, another under the DNS name)
MirrorContents ==
    {NoProfiles,
     VanityDNS :> MirrorEntry(1),
     VanityDNS :> MirrorEntry(ZeroTime),
     (VanityDNS :> [MirrorEntry(1) EXCEPT !.Endpoints = NoEndpoints])
        @@ (EastDNS :> [MirrorEntry(1) EXCEPT !.Hostname = EastDNS])}

InitTwin ==
    /\ remote \in TwinRemotes
    /\ \E b \in TwinBatches :
          changes = [w \in Writers |-> IF w = "w1" THEN b ELSE BatchInGroup(b, Rg2)]
    /\ mirror \in [Writers -> MirrorContents]
    /\ cnames = [w \in Writers |-> NoProfiles]
    /\ pc = [w \in Writers |-> FirstFrom(changes[w], "create", 1)]
    /\ result = [w \in Writers |-> ResultAt(FirstFrom(changes[w], "create", 1))]
    /\ calls = [w \in Writers |-> <<>>]
    /\ returned = [w \in Writers |-> <<>>]
    /\ faults = 0
    /\ now = 1
    /\ ManagerIdle
    /\ CallIdle

SpecTwin == InitTwin /\ [][Next]_vars

\* the remote answered the first n calls of the two runs alike
AnswersAgree(n) == \A k \in 1..n : calls["w1"][k].out = calls["w2"][k].out

\* the same remote call, each in the resource group of its run
SameCall(c1, c2) ==
    /\ c1.phase = c2.phase /\ c1.idx = c2.idx
    /\ c1.op = c2.op /\ c1.endpoint = c2.endpoint
    /\ c1.key[2] = c2.key[2]
    /\ c1.key[1] = Rg /\ c2.key[1] = Rg2

\* the profiles of resource group rg, by name
RemoteOfGroup(rg) ==
    [n \in {key[2] : key \in {k \in DOMAIN remote : k[1] = rg}} |-> remote[<<rg, n>>]]

Ord(w, phase, i) ==
    IF phase = "create" THEN i
    ELSE IF phase = "update" THEN Len(changes[w].Create) + i
    ELSE Len(changes[w].Create) + Len(changes[w].UpdateOld) + i

ItemCount(w) ==
    Len(changes[w].Create) + Len(changes[w].UpdateOld) + Len(changes[w].Delete)

C37_NoOutOfRangeAccess ==
    \A w \in Writers :
        /\ pc[w] # Panicked
        /\ result[w].status \in {"running", "ok", "error"}


\* C38: when the CreateOrUpdate of Update's tmClient.UpdateProfile is applied
\* to a remote that does not hold the profile, the remote does not hold it
\* afterwards either and the Update returns an error.
C38_UpdateNeverCreatesProfile ==
    [][\A w \in Writers :
          LET key == ProfileKey(updateConfig(Item(w)))
          IN  (/\ AtStep(w, "update", "profileput")
               /\ pc'[w] # pc[w]
               /\ ~RemoteHas(remote, key))
              => /\ ~RemoteHas(remote', key)
                 /\ result'[w].status = "error"]_vars


\* the resource group of k was asked for and every listing of it failed
FailedGroup(k) ==
    /\ \E i \in DOMAIN output.listed : output.listed[i].rg = k[1]
    /\ ListedOk(k) = {}

MirrorEntryOrNone(m, h) == IF h \in DOMAIN m THEN <<m[h]>> ELSE <<>>

NewCall(w) ==
    IF Len(calls'[w]) = Len(calls[w]) + 1 THEN <<calls'[w][Len(calls'[w])]>> ELSE <<>>

\* C40: a successful profile write (CreateProfile or UpdateProfile) for an
\* item that has no health-checks-enabled annotation, in its labels or its
\* provider-specific properties, leaves the remote profile with profile
\* status "Enabled".
C40_HealthChecksDefaultEnabled ==
    [][\A w \in Writers :
          \A i \in DOMAIN NewCall(w) :
             LET c == NewCall(w)[i]
             IN  (/\ c.op \in {"CreateProfile", "UpdateProfile"}
                  /\ c.out = "ok"
                  /\ AnnotationHealthChecksEnabled
                        \notin DOMAIN annotationMap(Item(w).Labels, Item(w).ProviderSpecific))
                 => remote'[c.key].ProfileStatus = "Enabled"]_vars

====
